---- MODULE Spec2Model ----
(***************************************************************************)
(* MindTube backend: the in-memory job store, the ingest / status / cancel *)
(* handlers and the background processing pipeline, together with the      *)
(* text post-processing of the summarization service.                      *)
(*                                                                         *)
(* Texts.  A Python str is modelled as a sequence of atoms.  Every         *)
(* character the code inspects on its own (space, newline, '.', '-', '*',  *)
(* the bullet U+2022, '?', '&') is an atom; a maximal run of other         *)
(* characters is a single atom ("learning,", "Welcome").  Every text of    *)
(* the model is in this normal form, so strip / split / startswith /       *)
(* lstrip act on atoms exactly as they act on characters.                  *)
(*                                                                         *)
(* Scheduling.  All handlers and pipelines run on one asyncio event loop:  *)
(* the code between two awaits is one atomic action.                       *)
(***************************************************************************)
EXTENDS Integers, Sequences, FiniteSets, TLC

\* Optional values: Python's None is the empty tuple and a present value v
\* is the one-element tuple <<v>>.
None == <<>>

\* A present optional value.
Some(v) == <<v>>

\* Bounds of the model.

\* Number of job ids uuid4 can mint in one run of the model.
MaxJobs == 2

\* Text layer (Python str methods used by the services).

\* U+2022, the first bullet marker of summarization.py:181.
BulletChar == "U+2022"

\* The characters str.strip() and str.split() treat as whitespace.
Whitespace == {" ", "\n"}

\* The markers of line.startswith(...) in summarization.py:181 and :201.
BulletMarkers == {BulletChar, "-", "*"}

\* The character set of line.lstrip(...) in summarization.py:183 and :203.
LStripSet == {BulletChar, "-", "*", " "}

RECURSIVE LStripChars(_, _)
\* str.lstrip(chars)
LStripChars(s, chars) ==
    IF s = <<>> THEN <<>>
    ELSE IF Head(s) \in chars THEN LStripChars(Tail(s), chars)
    ELSE s

RECURSIVE RStripChars(_, _)
\* str.rstrip(chars)
RStripChars(s, chars) ==
    IF s = <<>> THEN <<>>
    ELSE IF s[Len(s)] \in chars THEN RStripChars(SubSeq(s, 1, Len(s) - 1), chars)
    ELSE s

\* str.strip()
Strip(s) == RStripChars(LStripChars(s, Whitespace), Whitespace)

RECURSIVE SplitOn(_, _)
\* str.split(c) for a one-character separator: always at least one piece.
SplitOn(s, c) ==
    IF s = <<>> THEN << <<>> >>
    ELSE LET rest == SplitOn(Tail(s), c)
         IN  IF Head(s) = c THEN << <<>> >> \o rest
             ELSE << <<Head(s)>> \o Head(rest) >> \o Tail(rest)

RECURSIVE SplitParagraphs(_)
\* str.split('\n\n'): non-overlapping separators, scanned left to right.
SplitParagraphs(s) ==
    IF s = <<>> THEN << <<>> >>
    ELSE IF Len(s) >= 2 /\ s[1] = "\n" /\ s[2] = "\n"
         THEN << <<>> >> \o SplitParagraphs(SubSeq(s, 3, Len(s)))
         ELSE LET rest == SplitParagraphs(Tail(s))
              IN  << <<Head(s)>> \o Head(rest) >> \o Tail(rest)

\* s is not the empty string.
NonEmpty(s) == s # <<>>

\* [x.strip() for x in pieces if x.strip()]
StrippedNonEmpty(pieces) ==
    SelectSeq([i \in 1..Len(pieces) |-> Strip(pieces[i])], NonEmpty)

\* str.lower() on one atom: the atoms of the model that carry capitals.
LowerAtom(a) ==
    CASE a = "Welcome" -> "welcome"
      [] a = "Today" -> "today"
      [] a = "Supervised" -> "supervised"
      [] a = "Common" -> "common"
      [] a = "Unsupervised" -> "unsupervised"
      [] a = "Clustering" -> "clustering"
      [] a = "Reinforcement" -> "reinforcement"
      [] a = "Key" -> "key"
      [] a = "Choose" -> "choose"
      [] a = "Practice" -> "practice"
      [] a = "Thanks" -> "thanks"
      [] a = "Labeled" -> "labeled"
      [] OTHER -> a

\* str.lower()
Lower(s) == [i \in 1..Len(s) |-> LowerAtom(s[i])]

\* set(str.split()): the set of whitespace-separated words.
WordSet(s) ==
    LET spaced == [i \in 1..Len(s) |-> IF s[i] \in Whitespace THEN " " ELSE s[i]]
        pieces == SplitOn(spaced, " ")
    IN  {pieces[i] : i \in {k \in 1..Len(pieces) : pieces[k] # <<>>}}

\* max(a, b)
Max(a, b) == IF a >= b THEN a ELSE b

\* Data schemas (app/models/schemas.py).

\* JobStatus members.
PENDING == "pending"
FETCHING_METADATA == "fetching_metadata"
FETCHING_TRANSCRIPT == "fetching_transcript"
CHUNKING == "chunking"
MAPPING == "mapping"
REDUCING == "reducing"
FINALIZING == "finalizing"
COMPLETED == "completed"
FAILED == "failed"
CANCELLED == "cancelled"

\* The JobStatus enumeration.
JobStatus ==
    {PENDING, FETCHING_METADATA, FETCHING_TRANSCRIPT, CHUNKING, MAPPING,
     REDUCING, FINALIZING, COMPLETED, FAILED, CANCELLED}

\* TranscriptSegment(start_ms, end_ms, text); confidence defaults to None.
TranscriptSegment(start, end, text) ==
    [start_ms |-> start, end_ms |-> end, text |-> text, confidence |-> None]

\* SummarySection(content, timestamp_ms); youtube_link defaults to None.
SummarySection(content, ts) ==
    [content |-> content, timestamp_ms |-> ts, youtube_link |-> None]

\* Summarization service (app/services/summarization.py).

\* The cleaned contents of the bullet lines of an LLM response: the loop
\* shared by _parse_bullet_points and _parse_summary_sections.
BulletContents(text) ==
    LET lines == SplitOn(Strip(text), "\n")
        stripped == [i \in 1..Len(lines) |-> Strip(lines[i])]
        IsBullet(l) == l # <<>> /\ Head(l) \in BulletMarkers
        bullets == SelectSeq(stripped, IsBullet)
        cleaned == [i \in 1..Len(bullets) |-> Strip(LStripChars(bullets[i], LStripSet))]
    IN  SelectSeq(cleaned, NonEmpty)

\* sentences[:3]
SentenceLimit == 3

\* _parse_bullet_points(text)
_parse_bullet_points(text) ==
    LET bullet_points == BulletContents(text)
        sentences == StrippedNonEmpty(SplitOn(text, "."))
    IN  IF bullet_points # <<>> THEN bullet_points
        ELSE SubSeq(sentences, 1, IF Len(sentences) < SentenceLimit
                                  THEN Len(sentences) ELSE SentenceLimit)

RECURSIVE BestMatchLast(_, _, _, _)
\* Mutation of BestMatch: a score that equals the best one replaces it.
BestMatchLast(content_words, transcript, k, best) ==
    IF k > Len(transcript) THEN best.timestamp
    ELSE LET segment_words == WordSet(Lower(transcript[k].text))
             overlap == Cardinality(content_words \cap segment_words)
             den == Max(Cardinality(content_words), 1)
         IN  IF overlap * best.den >= best.num * den
             THEN BestMatchLast(content_words, transcript, k + 1,
                                [num |-> overlap, den |-> den,
                                 timestamp |-> Some(transcript[k].start_ms)])
             ELSE BestMatchLast(content_words, transcript, k + 1, best)

RECURSIVE BestMatch(_, _, _, _)
\* The loop of _estimate_timestamp from segment k on.  A score is the pair
\* (overlap, denominator); score > best_score is compared by cross products.
BestMatch(content_words, transcript, k, best) ==
    IF k > Len(transcript) THEN best.timestamp
    ELSE LET segment_words == WordSet(Lower(transcript[k].text))
             overlap == Cardinality(content_words \cap segment_words)
             den == Max(Cardinality(content_words), 1)
         IN  IF overlap * best.den > best.num * den
             THEN BestMatch(content_words, transcript, k + 1,
                            [num |-> overlap, den |-> den,
                             timestamp |-> Some(transcript[k].start_ms)])
             ELSE BestMatch(content_words, transcript, k + 1, best)

\* _estimate_timestamp(content, transcript)
_estimate_timestamp(content, transcript) ==
    BestMatch(WordSet(Lower(content)), transcript, 1,
              [num |-> 0, den |-> 1, timestamp |-> None])

\* _estimate_timestamp_by_position(position, total_sections, transcript);
\* int() truncates the non-negative product.
_estimate_timestamp_by_position(position, total_sections, transcript) ==
    IF transcript = <<>> THEN None
    ELSE LET total_duration == transcript[Len(transcript)].end_ms
         IN  Some((position * total_duration) \div Max(total_sections, 1))

\* _parse_summary_sections(text, transcript)
_parse_summary_sections(text, transcript) ==
    LET contents == BulletContents(text)
        paragraphs == StrippedNonEmpty(SplitParagraphs(text))
    IN  IF contents # <<>>
        THEN [i \in 1..Len(contents) |->
                 SummarySection(contents[i], _estimate_timestamp(contents[i], transcript))]
        ELSE [i \in 1..Len(paragraphs) |->
                 SummarySection(paragraphs[i],
                     _estimate_timestamp_by_position(i - 1, Len(paragraphs), transcript))]

\* _create_youtube_link(video_url, timestamp_ms): the link is the URL, the
\* separator and "t=<seconds>s".
_create_youtube_link(video_url, timestamp_ms) ==
    [url |-> video_url,
     sep |-> IF "?" \in {video_url[i] : i \in 1..Len(video_url)} THEN "&" ELSE "?",
     seconds |-> timestamp_ms \div 1000]

\* The truth value Python gives section.timestamp_ms.
Truthy(timestamp_ms) == timestamp_ms # None /\ timestamp_ms[1] # 0

\* The loop of process_complete_video that adds the links.
AddLinks(sections, video_url) ==
    [i \in 1..Len(sections) |->
        IF Truthy(sections[i].timestamp_ms)
        THEN [sections[i] EXCEPT !.youtube_link =
                 Some(_create_youtube_link(video_url, sections[i].timestamp_ms[1]))]
        ELSE sections[i]]

\* process_complete_video(transcript, video_url) when the four summary
\* tasks end with the final LLM texts llm.short, llm.detailed, llm.key_ideas
\* and llm.takeaways.
process_complete_video(transcript, video_url, llm) ==
    [short_summary |-> _parse_bullet_points(llm.short),
     detailed_summary |-> AddLinks(_parse_summary_sections(llm.detailed, transcript), video_url),
     key_ideas |-> AddLinks(_parse_summary_sections(llm.key_ideas, transcript), video_url),
     actionable_takeaways |-> AddLinks(_parse_summary_sections(llm.takeaways, transcript), video_url)]

\* Upstream services (inputs of the model).

\* The watch URL of the tests; it passes
\* VideoIngestRequest.validate_youtube_url.
Urls ==
    { <<"https://www", ".", "youtube", ".", "com/watch", "?", "v=dQw4w9WgXcQ">> }

\* VideoIngestRequest bodies a client sends; request.dict() of each.
Requests ==
    {[url |-> u, enable_asr |-> FALSE, language |-> None, chunk_size |-> None] : u \in Urls}

\* Caption snippets the captions API returns (start and duration in
\* microseconds, so that int(x * 1000) has something to truncate).
UpstreamSnippets ==
    { << [start |-> 0, duration |-> 4200500,
          text |-> <<" ", "Supervised", " ", "learning", " ", "uses", " ", "labeled", " ", "data">>],
         [start |-> 4200500, duration |-> 3000000,
          text |-> <<"Practice", " ", "with", " ", "real", " ", "datasets", "\n">>] >>,
      << >> }

\* The conversion loop of fetch_transcript: snippets to TranscriptSegments.
SnippetsToSegments(snippets) ==
    [i \in 1..Len(snippets) |->
        TranscriptSegment(snippets[i].start \div 1000,
                          (snippets[i].start + snippets[i].duration) \div 1000,
                          Strip(snippets[i].text))]

\* Outcomes of fetch_transcript_with_fallback: it raises, or it returns the
\* converted segments of a caption track.
FetchOutcomes ==
    {[ok |-> FALSE, segments |-> << >>]} \cup
    {[ok |-> TRUE, segments |-> SnippetsToSegments(sn)] : sn \in UpstreamSnippets}

\* Final texts the chat-completion service returns for one video.
BulletText ==
    <<"-", " ", "Supervised", " ", "learning", " ", "uses", " ", "labeled", " ", "data", "\n",
      "*", " ", "practice", " ", "with", " ", "datasets">>

\* A response without bullet lines: two paragraphs, three sentences.
ProseText ==
    <<"Supervised", " ", "learning", ".", " ", "Labeled", " ", "data", ".", "\n", "\n",
      "Practice", ".">>

\* A blank response.
BlankText == <<" ", "\n">>

\* Outcomes of the four summary tasks of process_complete_video: one of
\* them raises, or each ends with a final LLM text.
LlmOutcomes ==
    {[ok |-> FALSE, short |-> << >>, detailed |-> << >>, key_ideas |-> << >>, takeaways |-> << >>],
     [ok |-> TRUE, short |-> BulletText, detailed |-> BulletText,
      key_ideas |-> BulletText, takeaways |-> ProseText],
     [ok |-> TRUE, short |-> ProseText, detailed |-> ProseText,
      key_ideas |-> BulletText, takeaways |-> BulletText],
     [ok |-> TRUE, short |-> BlankText, detailed |-> BulletText,
      key_ideas |-> BlankText, takeaways |-> BulletText]}

\* str(e) of an exception that escapes the pipeline.
ErrorTexts == {"stage failure"}

\* No call of a service function.  trace lists the calls the function made
\* to other service functions and to the captions API.
NoCall == [fn |-> "none", args |-> <<>>, ret |-> None, raised |-> None, trace |-> <<>>]

\* A call that has not run yet.
NewCall(fn, args) == [NoCall EXCEPT !.fn = fn, !.args = args]

\* What a function call comes to: a returned value or a raised exception,
\* and the trace of the calls made on the way.
Returned(value, trace) == [ok |-> TRUE, value |-> value, exc |-> None, trace |-> trace]

\* raise ValueError(message)
RaisedError(type, message, trace) ==
    [ok |-> FALSE, value |-> None, exc |-> Some([type |-> type, message |-> message]),
     trace |-> trace]

\* The call record once the function has come to outcome.
Finished(c, outcome) ==
    [c EXCEPT !.ret = IF outcome.ok THEN Some(outcome.value) ELSE None,
              !.raised = outcome.exc,
              !.trace = outcome.trace]

\* Chunking (app/services/summarization.py).

\* f"{n:02d}" for the minutes and seconds the model reaches.
TwoDigits(n) ==
    CASE n = 0 -> "00" [] n = 1 -> "01" [] n = 2 -> "02" [] n = 3 -> "03"
      [] n = 30 -> "30" [] n = 61 -> "61" [] OTHER -> "??"

\* _format_timestamp(ms): minutes, colon, seconds.
_format_timestamp(ms) ==
    LET seconds == ms \div 1000
    IN  <<TwoDigits(seconds \div 60), ":", TwoDigits(seconds % 60)>>

\* segment_text of chunk_transcript: f"[{timestamp}] {segment.text}"
segment_text(segment) ==
    <<"[">> \o _format_timestamp(segment.start_ms) \o <<"]", " ">> \o segment.text

\* count_tokens(segment_text): the tokenizer as a table over the caption
\* texts of the model.
count_tokens(text) ==
    LET body == SubSeq(text, 7, Len(text))
    IN  CASE body = <<"Hello", " ", "world">> -> 700
          [] body = <<"line", "\n", "two">> -> 800
          [] body = <<"a", " ", "long", " ", "talk">> -> 1600
          [] OTHER -> 3

\* self.chunk_size, settings.DEFAULT_CHUNK_SIZE_TOKENS
chunk_size == 1500

RECURSIVE ChunkLoopLate(_, _, _, _, _)
\* Mutation of ChunkLoop: the budget test looks at the tokens already in the
\* buffer only.
ChunkLoopLate(transcript, k, chunks, current_chunk, current_tokens) ==
    IF k > Len(transcript)
    THEN IF Strip(current_chunk) # <<>> THEN Append(chunks, Strip(current_chunk)) ELSE chunks
    ELSE LET text == segment_text(transcript[k])
             segment_tokens == count_tokens(text)
         IN  IF current_tokens > chunk_size /\ current_chunk # <<>>
             THEN ChunkLoopLate(transcript, k + 1, Append(chunks, Strip(current_chunk)),
                                text, segment_tokens)
             ELSE ChunkLoopLate(transcript, k + 1, chunks,
                                current_chunk \o <<"\n">> \o text,
                                current_tokens + segment_tokens)

RECURSIVE ChunkLoop(_, _, _, _, _)
\* The loop of chunk_transcript from segment k on, and the last chunk.
ChunkLoop(transcript, k, chunks, current_chunk, current_tokens) ==
    IF k > Len(transcript)
    THEN IF Strip(current_chunk) # <<>> THEN Append(chunks, Strip(current_chunk)) ELSE chunks
    ELSE LET text == segment_text(transcript[k])
             segment_tokens == count_tokens(text)
         IN  IF current_tokens + segment_tokens > chunk_size /\ current_chunk # <<>>
             THEN ChunkLoop(transcript, k + 1, Append(chunks, Strip(current_chunk)),
                            text, segment_tokens)
             ELSE ChunkLoop(transcript, k + 1, chunks,
                            current_chunk \o <<"\n">> \o text,
                            current_tokens + segment_tokens)

\* chunk_transcript(transcript)
chunk_transcript(transcript) == ChunkLoop(transcript, 1, <<>>, <<>>, 0)

\* Transcript service (app/services/youtube_transcript.py).
\* A URL is a text whose atoms are the pieces the patterns of
\* extract_video_id tell apart: scheme, host labels, "/", path words, "?",
\* "&", "v=", and the runs of id characters.

\* ([a-zA-Z0-9_-]{11}) matched at the start of an atom: the first eleven
\* characters of a run of at least eleven id characters.
IdOf(atom) ==
    CASE atom = "dQw4w9WgXcQ" -> Some("dQw4w9WgXcQ")
      [] atom = "dQw4w9WgXcQ123" -> Some("dQw4w9WgXcQ")
      [] atom = "UCuAXFkgsw1L7xaCfnd5JJOw" -> Some("UCuAXFkgsw1")
      [] atom = "PLrAXtmRdnEQy6nuLMHjMZOz59Oq8HmPME" -> Some("PLrAXtmRdnE")
      [] OTHER -> None

\* url holds the atoms lit from position p on.
LiteralAt(url, p, lit) ==
    p + Len(lit) - 1 <= Len(url) /\ SubSeq(url, p, p + Len(lit) - 1) = lit

\* The alternatives of the first pattern of extract_video_id.
IdPrefixes ==
    { <<"youtube.com", "/", "watch", "?", "v=">>,
      <<"youtu.be", "/">>,
      <<"youtube.com", "/", "embed", "/">>,
      <<"m.", "youtube.com", "/", "watch", "?", "v=">> }

\* extract_video_id(url): re.search of the two patterns, case-sensitive, the
\* first at the leftmost place it matches, the second with its greedy .*
\* at the last "?v=" or "&v=" after "youtube.com/"; then the test for a bare
\* id; then the ValueError that names the URL.
extract_video_id(url) ==
    LET u == Strip(url)
        first == {p \in 1..Len(u) : \E lit \in IdPrefixes :
                      /\ LiteralAt(u, p, lit)
                      /\ p + Len(lit) <= Len(u)
                      /\ IdOf(u[p + Len(lit)]) # None}
        second == {q \in 1..Len(u) :
                      /\ \E p \in 1..(q - 2) : LiteralAt(u, p, <<"youtube.com", "/">>)
                      /\ u[q] \in {"?", "&"}
                      /\ LiteralAt(u, q + 1, <<"v=">>)
                      /\ q + 2 <= Len(u)
                      /\ IdOf(u[q + 2]) # None}
    IN  IF first # {}
        THEN LET p == CHOOSE p \in first : \A r \in first : p <= r
                 lit == CHOOSE lit \in IdPrefixes :
                            /\ LiteralAt(u, p, lit) /\ p + Len(lit) <= Len(u)
                            /\ IdOf(u[p + Len(lit)]) # None
             IN  Returned(IdOf(u[p + Len(lit)])[1], <<>>)
        ELSE IF second # {}
        THEN LET q == CHOOSE q \in second : \A r \in second : q >= r
             IN  Returned(IdOf(u[q + 2])[1], <<>>)
        ELSE IF Len(u) = 1 /\ IdOf(u[1]) = Some(u[1])
        THEN Returned(u[1], <<>>)
        ELSE RaisedError("ValueError",
                         <<"Could not extract video ID from URL: ">> \o u, <<>>)

\* Mutation of youtube_patterns: a shorts URL is accepted as well.
youtube_patterns_wide ==
    { <<"youtube.com", "/", "watch", "?", "v=">>,
      <<"youtu.be", "/">>,
      <<"youtube.com", "/", "embed", "/">>,
      <<"youtube.com", "/", "shorts", "/">> }

\* The three patterns of VideoIngestRequest.validate_youtube_url, after the
\* scheme and the optional "www.": what comes before the captured id.
youtube_patterns ==
    { <<"youtube.com", "/", "watch", "?", "v=">>,
      <<"youtu.be", "/">>,
      <<"youtube.com", "/", "embed", "/">> }

\* The ids the patterns capture with re.match(pattern, v): the match starts
\* at the first character of v, with "http://" or "https://", and "www."
\* may come before youtube.com only.
Captured(v) ==
    {IdOf(v[p])[1] :
        p \in {p \in 1..Len(v) :
                  /\ IdOf(v[p]) # None
                  /\ v[1] \in {"http://", "https://"}
                  /\ \E lit \in youtube_patterns :
                        \/ SubSeq(v, 2, p - 1) = lit
                        \/ /\ lit[1] = "youtube.com"
                           /\ SubSeq(v, 2, p - 1) = <<"www.">> \o lit}}

\* VideoIngestRequest.validate_youtube_url(v)
validate_youtube_url(v) ==
    IF Captured(v) = {}
    THEN RaisedError("ValueError", <<"Invalid YouTube URL format">>, <<>>)
    ELSE Returned(v, <<>>)

\* The captions API (youtube_transcript_api) as the service sees it: each
\* call of api_client.fetch or api_client.list ends well or raises one of the
\* failures the service tells apart, or some other exception; message is the
\* str(e) of the failure.
ApiOutcomes ==
    { [fault |-> "ok", message |-> <<>>],
      [fault |-> "RequestBlocked", message |-> <<"YouTube is blocking requests from your IP">>],
      [fault |-> "IpBlocked", message |-> <<"YouTube is blocking requests from your IP">>],
      [fault |-> "TranscriptsDisabled", message |-> <<"Subtitles are disabled for this video">>],
      [fault |-> "NoTranscriptFound",
       message |-> <<"No transcripts were found for any of the requested language codes">>],
      [fault |-> "VideoUnavailable", message |-> <<"The video is no longer available">>],
      [fault |-> "Exception", message |-> <<"Connection reset by peer">>] }

\* The number of the next call of the captions API.
NextApiCall(trace) ==
    Cardinality({i \in 1..Len(trace) : trace[i].op \in {"api.fetch", "api.list"}}) + 1

\* Mutation of WrapFetchError: the failure of an unavailable video leaves
\* fetch_transcript as it came.
WrapFetchErrorLeaky(outcome, languages, trace) ==
    CASE outcome.fault \in {"RequestBlocked", "IpBlocked"} ->
           RaisedError("ValueError",
               <<"Request blocked by YouTube. Consider configuring a proxy: ">>
                   \o outcome.message, trace)
      [] outcome.fault = "TranscriptsDisabled" ->
           RaisedError("ValueError",
               <<"Transcripts are disabled for this video: ">> \o outcome.message, trace)
      [] outcome.fault = "NoTranscriptFound" ->
           RaisedError("ValueError",
               <<"No transcript found", " for languages ">> \o languages \o <<": ">>
                   \o outcome.message, trace)
      [] outcome.fault = "VideoUnavailable" ->
           RaisedError("VideoUnavailable", outcome.message, trace)
      [] OTHER ->
           RaisedError("ValueError",
               <<"Failed to fetch transcript: ">> \o outcome.message, trace)

\* The except clauses of fetch_transcript: each raises a ValueError whose
\* message is a phrase for the cause followed by str(e).
WrapFetchError(outcome, languages, trace) ==
    CASE outcome.fault \in {"RequestBlocked", "IpBlocked"} ->
           RaisedError("ValueError",
               <<"Request blocked by YouTube. Consider configuring a proxy: ">>
                   \o outcome.message, trace)
      [] outcome.fault = "TranscriptsDisabled" ->
           RaisedError("ValueError",
               <<"Transcripts are disabled for this video: ">> \o outcome.message, trace)
      [] outcome.fault = "NoTranscriptFound" ->
           RaisedError("ValueError",
               <<"No transcript found", " for languages ">> \o languages \o <<": ">>
                   \o outcome.message, trace)
      [] outcome.fault = "VideoUnavailable" ->
           RaisedError("ValueError",
               <<"Video is not available: ">> \o outcome.message, trace)
      [] OTHER ->
           RaisedError("ValueError",
               <<"Failed to fetch transcript: ">> \o outcome.message, trace)

\* fetch_transcript(video_url, languages): languages is None or Some(list);
\* upstream gives the outcome of each call of the captions API and the
\* snippets of the track it returns.
fetch_transcript(video_url, languages, upstream, trace) ==
    LET entered == Append(trace, [op |-> "fetch_transcript", video |-> video_url,
                                  languages |-> languages])
        video_id == extract_video_id(video_url)
        langs == IF languages = None THEN <<"en", "en-US", "en-GB">> ELSE languages[1]
        outcome == upstream.outcomes[NextApiCall(trace)]
        called == Append(entered, [op |-> "api.fetch", video |-> <<video_id.value>>,
                                   languages |-> Some(langs)])
    IN  IF ~video_id.ok
        THEN WrapFetchError([fault |-> "ValueError", message |-> video_id.exc[1].message],
                            langs, entered)
        ELSE IF outcome.fault = "ok"
        THEN Returned(SnippetsToSegments(upstream.snippets), called)
        ELSE WrapFetchError(outcome, langs, called)

\* get_available_transcripts(video_url): the listed tracks in listing order,
\* or a ValueError for any failure.
get_available_transcripts(video_url, upstream, trace) ==
    LET entered == Append(trace, [op |-> "get_available_transcripts", video |-> video_url,
                                  languages |-> None])
        video_id == extract_video_id(video_url)
        outcome == upstream.outcomes[NextApiCall(trace)]
        called == Append(entered, [op |-> "api.list", video |-> <<video_id.value>>,
                                   languages |-> None])
    IN  IF ~video_id.ok
        THEN RaisedError("ValueError",
                 <<"Failed to get available transcripts: ">> \o video_id.exc[1].message,
                 entered)
        ELSE IF outcome.fault = "ok"
        THEN Returned([video_id |-> video_id.value,
                       available_transcripts |-> upstream.tracks], called)
        ELSE RaisedError("ValueError",
                 <<"Failed to get available transcripts: ">> \o outcome.message, called)

\* "No transcript found" in str(e)
IsLanguageIssue(exc) ==
    "No transcript found" \in {exc.message[i] : i \in 1..Len(exc.message)}

\* Mutation of fallback_language: the first listed track is taken whether
\* or not it is machine-generated.
fallback_language_first(available_transcripts) ==
    available_transcripts[1].language_code

\* The choice of the fallback language in fetch_transcript_with_fallback.
fallback_language(available_transcripts) ==
    LET manual_transcripts == SelectSeq(available_transcripts, LAMBDA t : ~t.is_generated)
    IN  IF manual_transcripts # <<>>
        THEN manual_transcripts[1].language_code
        ELSE available_transcripts[1].language_code

\* fetch_transcript_with_fallback from "Get available transcripts" on.
FallbackLogic(video_url, upstream, trace) ==
    LET available_info == get_available_transcripts(video_url, upstream, trace)
    IN  IF ~available_info.ok
        THEN available_info
        ELSE IF available_info.value.available_transcripts = <<>>
        THEN RaisedError("ValueError", <<"No transcripts available for this video">>,
                         available_info.trace)
        ELSE fetch_transcript(video_url,
                 Some(<<fallback_language(available_info.value.available_transcripts)>>),
                 upstream, available_info.trace)

\* fetch_transcript_with_fallback(video_url, preferred_languages): the outer
\* except clause logs and re-raises what it catches.
fetch_transcript_with_fallback(video_url, preferred_languages, upstream) ==
    LET first == fetch_transcript(video_url, preferred_languages, upstream, <<>>)
    IN  IF preferred_languages # None /\ preferred_languages[1] # <<>>
        THEN IF first.ok
             THEN first
             ELSE IF ~IsLanguageIssue(first.exc[1])
             THEN first
             ELSE FallbackLogic(video_url, upstream, first.trace)
        ELSE FallbackLogic(video_url, upstream, <<>>)

\* Azure OpenAI client (app/services/llm_client.py).

\* The summary_type values the summarization service passes.
SummaryTypes == {"short", "detailed", "key_ideas", "takeaways"}

\* asyncio.Semaphore(3) of process_transcript_chunks.
SemaphoreLimit == 3

\* str(i) for the section numbers the model reaches.
Decimal == <<"1", "2", "3", "4", "5", "6", "7", "8">>

\* prompts[summary_type] of generate_summary.
prompts(summary_type) ==
    CASE summary_type = "short" ->
             "Provide a concise 2-3 bullet point summary of the key points from this transcript:"
      [] summary_type = "key_ideas" ->
             "Extract the 3-5 most important key ideas or concepts from this transcript:"
      [] summary_type = "takeaways" ->
             "Identify 3-5 actionable takeaways or practical advice from this transcript:"
      [] OTHER ->
             "Provide a detailed summary with key insights, main topics, and important details from this transcript:"

\* reduction_prompts[summary_type] of reduce_summaries.
reduction_prompts(summary_type) ==
    CASE summary_type = "short" ->
             "Combine these section summaries into a concise 2-3 bullet point overall summary:"
      [] summary_type = "key_ideas" ->
             "Synthesize these sections to identify the most important key ideas or concepts:"
      [] summary_type = "takeaways" ->
             "Combine these sections to create a cohesive list of actionable takeaways:"
      [] OTHER ->
             "Combine these section summaries into a comprehensive, well-structured summary that flows naturally:"

\* The chat-completion request of generate_summary(text, summary_type): the
\* user message is f"{prompt}\n\nTranscript:\n{text}".
MapRequest(text, summary_type) ==
    [fn |-> "generate_summary",
     content |-> <<prompts(summary_type), "\n", "\n", "Transcript:", "\n">> \o text]

RECURSIVE JoinSections(_, _)
\* "\n\n".join(f"Section {i+1}:\n{summary}" for i, summary in
\* enumerate(summaries)), from the k-th summary on.
JoinSections(summaries, k) ==
    IF k > Len(summaries) THEN <<>>
    ELSE <<"Section", " ", Decimal[k], ":", "\n">> \o summaries[k]
         \o (IF k < Len(summaries) THEN <<"\n", "\n">> ELSE <<>>)
         \o JoinSections(summaries, k + 1)

\* combined_text of reduce_summaries
combined_text(summaries) == JoinSections(summaries, 1)

\* The chat-completion request of reduce_summaries(summaries, summary_type):
\* the user message is f"{prompt}\n\n{combined_text}".
ReduceRequest(summaries, summary_type) ==
    [fn |-> "reduce_summaries",
     content |-> <<reduction_prompts(summary_type), "\n", "\n">> \o combined_text(summaries)]

\* response.choices[0].message.content: the text the service answers a
\* request with.  The answer names the body of the request it answers, so
\* that two answers are told apart.
Completion(request) ==
    IF request.fn = "generate_summary"
    THEN <<"Summary", " ", "of", " ">>
         \o SubSeq(request.content, 6, Len(request.content))
    ELSE <<"Overall", " ", "summary">>

\* A coroutine of the LLM client or of the summarization service that does
\* not exist.
\*   entry     the method called: process_transcript_chunks, reduce_summaries
\*             or generate (one of the four methods of the summarization
\*             service that process_complete_video gathers)
\*   pc        the await the coroutine is suspended at
\*   chunks    the chunks (for reduce_summaries: the summaries) passed in
\*   call      per chunk, the state of its process_with_semaphore task
\*   value, waiters   the semaphore's counter and its FIFO of waiting tasks
\*   results   per chunk, the value its task returned
\*   requests  the chat-completion requests sent so far, in sending order
\*   ret       the returned value
NoSummaryTask ==
    [entry |-> "none", pc |-> "none", chunks |-> <<>>, call |-> <<>>,
     value |-> 0, waiters |-> <<>>, results |-> <<>>,
     requests |-> <<>>, ret |-> None]

\* The chunk texts chunk_transcript hands to the client: chunk i of n.
ChunkTexts(n) == [i \in 1..n |-> <<"chunk", " ", Decimal[i]>>]

\* Job store and handlers (app/api/ingest.py, app/api/status.py).

\* The ids uuid4 mints, in minting order.
JobIds == 1..MaxJobs

\* The ids a client may ask about; 0 is never minted.
LookupIds == 0..MaxJobs

VARIABLES
    jobs_store,   \* ingest.py:16, job id -> job record
    task,         \* per job id: where its process_video_pipeline task stands
    response,     \* the HTTP response sent by the last step (NoResponse
                  \* when the last step was a pipeline step)
    written,      \* per job id: the (status, progress_percent) pairs that
                  \* ingest_video and the pipeline wrote, in order
    cancelled_jobs, \* the job ids a cancel_job call has cancelled
    summary_tasks, \* per summary type: the coroutine of the LLM client or of
                  \* the summarization service that works on that type
    call          \* a call of a synchronous service function: the function,
                  \* its arguments and, once it has run, what it returned
                  \* or raised

vars == <<jobs_store, task, response, written, cancelled_jobs, summary_tasks, call>>

\* The variables of the job store and its handlers.
jobvars == <<jobs_store, task, response, written, cancelled_jobs>>

\* The variables of the services, which the handlers above abstract by the
\* outcomes FetchOutcomes and LlmOutcomes.
svcvars == <<summary_tasks, call>>

\* No handler returned in the last step.
NoResponse == [op |-> "none", job_id |-> 0, status_code |-> 0, body |-> None]

\* A pipeline task that does not exist (yet).
\* pc is the await the task is suspended at, stage the index of the last
\* stage written, transcript the local of that name; fetch_raised,
\* llm_raised and exception tell which except branch the task has taken.
NoTask ==
    [pc |-> "none", stage |-> 0, transcript |-> << >>,
     fetch_raised |-> FALSE, llm_raised |-> FALSE, exception |-> None]

\* The (status, progress_percent) pair job j shows in store.
Shown(store, j) == <<store[j].status, store[j].progress.progress_percent>>

\* Mutation of stages: chunking and mapping change places.
stages_swapped ==
    << [status |-> FETCHING_METADATA, step |-> "Fetching video metadata", progress |-> 10],
       [status |-> FETCHING_TRANSCRIPT, step |-> "Extracting transcript", progress |-> 25],
       [status |-> MAPPING, step |-> "Generating initial summaries", progress |-> 65],
       [status |-> CHUNKING, step |-> "Chunking transcript", progress |-> 40],
       [status |-> REDUCING, step |-> "Creating final summaries", progress |-> 85],
       [status |-> FINALIZING, step |-> "Finalizing results", progress |-> 95] >>

\* stages of process_video_pipeline
stages ==
    << [status |-> FETCHING_METADATA, step |-> "Fetching video metadata", progress |-> 10],
       [status |-> FETCHING_TRANSCRIPT, step |-> "Extracting transcript", progress |-> 25],
       [status |-> CHUNKING, step |-> "Chunking transcript", progress |-> 40],
       [status |-> MAPPING, step |-> "Generating initial summaries", progress |-> 65],
       [status |-> REDUCING, step |-> "Creating final summaries", progress |-> 85],
       [status |-> FINALIZING, step |-> "Finalizing results", progress |-> 95] >>

\* The mock transcript of process_video_pipeline.
DemoTranscript ==
    <<
    TranscriptSegment(0, 5000, <<"Welcome", " ", "to", " ", "this", " ", "tutorial", " ", "on", " ", "machine", " ", "learning", " ", "fundamentals", ".">>),
    TranscriptSegment(5000, 12000, <<"Today", " ", "we'll", " ", "cover", " ", "supervised", " ", "learning,", " ", "unsupervised", " ", "learning,", " ", "and", " ", "reinforcement", " ", "learning", ".">>),
    TranscriptSegment(12000, 20000, <<"Supervised", " ", "learning", " ", "uses", " ", "labeled", " ", "data", " ", "to", " ", "train", " ", "models", " ", "that", " ", "can", " ", "make", " ", "predictions", ".">>),
    TranscriptSegment(20000, 28000, <<"Common", " ", "examples", " ", "include", " ", "classification", " ", "and", " ", "regression", " ", "problems", ".">>),
    TranscriptSegment(28000, 35000, <<"Unsupervised", " ", "learning", " ", "finds", " ", "patterns", " ", "in", " ", "data", " ", "without", " ", "labeled", " ", "examples", ".">>),
    TranscriptSegment(35000, 42000, <<"Clustering", " ", "and", " ", "dimensionality", " ", "reduction", " ", "are", " ", "key", " ", "unsupervised", " ", "techniques", ".">>),
    TranscriptSegment(42000, 50000, <<"Reinforcement", " ", "learning", " ", "trains", " ", "agents", " ", "through", " ", "trial", " ", "and", " ", "error", " ", "with", " ", "rewards", ".">>),
    TranscriptSegment(50000, 58000, <<"Key", " ", "takeaway:", " ", "Choose", " ", "the", " ", "right", " ", "approach", " ", "based", " ", "on", " ", "your", " ", "data", " ", "and", " ", "problem", " ", "type", ".">>),
    TranscriptSegment(58000, 65000, <<"Practice", " ", "with", " ", "real", " ", "datasets", " ", "to", " ", "build", " ", "your", " ", "machine", " ", "learning", " ", "skills", ".">>),
    TranscriptSegment(65000, 70000, <<"Thanks", " ", "for", " ", "watching,", " ", "and", " ", "happy", " ", "learning!">>)
    >>

\* Mutation of NewJob: the record starts in the first stage.
NewJobStarted(job_id, request) ==
    [job_id |-> job_id,
     status |-> FETCHING_METADATA,
     request |-> request,
     progress |-> [status |-> FETCHING_METADATA,
                   progress_percent |-> 10,
                   current_step |-> "Fetching video metadata",
                   estimated_completion_seconds |-> None,
                   partial_results |-> None],
     result |-> None,
     error |-> None,
     created_at |-> "2025-01-01T00:00:00Z"]

\* The job record ingest_video stores.
NewJob(job_id, request) ==
    [job_id |-> job_id,
     status |-> PENDING,
     request |-> request,
     progress |-> [status |-> PENDING,
                   progress_percent |-> 0,
                   current_step |-> "Initializing job",
                   estimated_completion_seconds |-> None,
                   partial_results |-> None],
     result |-> None,
     error |-> None,
     created_at |-> "2025-01-01T00:00:00Z"]

\* Mutation of FreshJobId: every ingest mints the same id.
FreshJobIdRepeated == CHOOSE job_id \in JobIds : \A k \in JobIds : job_id <= k

\* str(uuid.uuid4()): an id no earlier call returned.
FreshJobId == Cardinality(DOMAIN jobs_store) + 1

\* POST /ingest
ingest_video(request) ==
    /\ FreshJobId \in JobIds
    /\ LET job_id == FreshJobId
       IN  /\ jobs_store' = [k \in DOMAIN jobs_store \cup {job_id} |->
                                IF k = job_id THEN NewJob(job_id, request)
                                ELSE jobs_store[k]]
           /\ task' = [task EXCEPT ![job_id] = [NoTask EXCEPT !.pc = "scheduled"]]
           /\ written' = [written EXCEPT ![job_id] = <<Shown(jobs_store', job_id)>>]
           /\ UNCHANGED cancelled_jobs
           /\ response' = [op |-> "ingest", job_id |-> job_id, status_code |-> 200,
                           body |-> Some([job_id |-> job_id, status |-> PENDING,
                               message |-> "Job created successfully. Processing started.",
                               estimated_completion_seconds |-> 30])]
    /\ UNCHANGED svcvars

\* The result of the success branch of process_video_pipeline.  cost_usd is
\* in hundredths of a dollar.
RealResult(job_id, transcript, summaries) ==
    [job_id |-> job_id,
     video_metadata |-> [video_id |-> "demo_video_id",
                         title |-> "Machine Learning Fundamentals Tutorial",
                         channel_name |-> "AI Education Channel",
                         duration_seconds |-> 70,
                         has_captions |-> TRUE],
     short_summary |-> summaries.short_summary,
     detailed_summary |-> summaries.detailed_summary,
     key_ideas |-> summaries.key_ideas,
     actionable_takeaways |-> summaries.actionable_takeaways,
     transcript |-> transcript,
     processing_stats |-> [total_duration_seconds |-> 15, tokens_used |-> 2500, cost_usd |-> 8],
     created_at |-> "2025-01-01T00:00:00Z",
     completed_at |-> "2025-01-01T00:00:15Z"]

\* f"{request.url}&t=<seconds>s" of the fallback result.
FallbackLink(url, seconds) == [url |-> url, sep |-> "&", seconds |-> seconds]

\* The literal result of the except branch of process_video_pipeline.
FallbackResult(job_id, url) ==
    [job_id |-> job_id,
     video_metadata |-> [video_id |-> "fallback_video_id",
                         title |-> "Fallback Demo Video",
                         channel_name |-> "Demo Channel",
                         duration_seconds |-> 60,
                         has_captions |-> TRUE],
     short_summary |-> << <<"This is a fallback summary when Azure OpenAI is not available">>,
                          <<"The system gracefully handles configuration issues">> >>,
     detailed_summary |-> << [content |-> <<"Fallback detailed summary content">>,
                              timestamp_ms |-> Some(30000),
                              youtube_link |-> Some(FallbackLink(url, 30))] >>,
     key_ideas |-> << [content |-> <<"Fallback key idea">>,
                       timestamp_ms |-> Some(45000),
                       youtube_link |-> Some(FallbackLink(url, 45))] >>,
     actionable_takeaways |->
         << [content |-> <<"Configure Azure OpenAI credentials to enable AI processing">>,
             timestamp_ms |-> Some(55000),
             youtube_link |-> Some(FallbackLink(url, 55))] >>,
     transcript |-> << [start_ms |-> 0, end_ms |-> 5000,
                        text |-> <<"Fallback transcript segment">>] >>,
     processing_stats |-> [total_duration_seconds |-> 8, tokens_used |-> 0, cost_usd |-> 0],
     created_at |-> "2025-01-01T00:00:00Z",
     completed_at |-> "2025-01-01T00:00:08Z"]

\* Mutation of PipelineStage: the loop checks for a cancel and aborts.
PipelineStageAborting(j) ==
    /\ \/ task[j].pc = "scheduled"
       \/ task[j].pc = "stage" /\ task[j].stage < Len(stages)
    /\ IF jobs_store[j].status = CANCELLED
       THEN /\ task' = [task EXCEPT ![j].pc = "done"]
            /\ UNCHANGED <<jobs_store, written>>
       ELSE LET n == task[j].stage + 1
                st == stages[n]
            IN  /\ jobs_store' = [jobs_store EXCEPT
                        ![j].status = st.status,
                        ![j].progress.status = st.status,
                        ![j].progress.progress_percent = st.progress,
                        ![j].progress.current_step = st.step]
                /\ task' = [task EXCEPT ![j].pc = "stage", ![j].stage = n]
                /\ written' = [written EXCEPT ![j] = Append(@, Shown(jobs_store', j))]
    /\ response' = NoResponse
    /\ UNCHANGED cancelled_jobs
    /\ UNCHANGED svcvars

\* One iteration of the staged loop of process_video_pipeline: the task
\* starts, or wakes from the sleep of stage n-1, writes stage n and sleeps.
PipelineStage(j) ==
    /\ \/ task[j].pc = "scheduled"
       \/ task[j].pc = "stage" /\ task[j].stage < Len(stages)
    /\ LET n == task[j].stage + 1
           st == stages[n]
       IN  /\ jobs_store' = [jobs_store EXCEPT
                   ![j].status = st.status,
                   ![j].progress.status = st.status,
                   ![j].progress.progress_percent = st.progress,
                   ![j].progress.current_step = st.step]
           /\ task' = [task EXCEPT ![j].pc = "stage", ![j].stage = n]
    /\ written' = [written EXCEPT ![j] = Append(@, Shown(jobs_store', j))]
    /\ response' = NoResponse
    /\ UNCHANGED cancelled_jobs
    /\ UNCHANGED svcvars

\* Mutation of PipelineFetchTranscript: a failed fetch leaves the
\* transcript empty.
PipelineFetchTranscriptEmpty(j) ==
    /\ task[j].pc = "stage" /\ task[j].stage = Len(stages)
    /\ \E fetched \in FetchOutcomes :
           task' = [task EXCEPT ![j].pc = "summarizing",
                                ![j].fetch_raised = ~fetched.ok,
                                ![j].transcript = fetched.segments]
    /\ response' = NoResponse
    /\ UNCHANGED <<jobs_store, written, cancelled_jobs>>
    /\ UNCHANGED svcvars

\* After the last sleep: the transcript fetch with its fallback to the mock
\* transcript; the task then waits in process_complete_video.
PipelineFetchTranscript(j) ==
    /\ task[j].pc = "stage" /\ task[j].stage = Len(stages)
    /\ \E fetched \in FetchOutcomes :
           task' = [task EXCEPT ![j].pc = "summarizing",
                                ![j].fetch_raised = ~fetched.ok,
                                ![j].transcript = IF fetched.ok THEN fetched.segments
                                                  ELSE DemoTranscript]
    /\ response' = NoResponse
    /\ UNCHANGED <<jobs_store, written, cancelled_jobs>>
    /\ UNCHANGED svcvars

\* Mutation of PipelineSummarize: a summarization failure fails the job.
PipelineSummarizeFailing(j) ==
    /\ task[j].pc = "summarizing"
    /\ \E llm \in LlmOutcomes :
           LET url == jobs_store[j].request.url
               transcript == task[j].transcript
           IN  /\ jobs_store' =
                      IF llm.ok
                      THEN [jobs_store EXCEPT
                               ![j].status = COMPLETED,
                               ![j].progress.progress_percent = 100,
                               ![j].progress.current_step = "Completed",
                               ![j].result = Some(RealResult(j, transcript,
                                   process_complete_video(transcript, url, llm)))]
                      ELSE [jobs_store EXCEPT
                               ![j].status = FAILED,
                               ![j].error = Some("summarization failed")]
               /\ task' = [task EXCEPT ![j].pc = "done", ![j].transcript = << >>,
                                       ![j].llm_raised = ~llm.ok]
    /\ written' = [written EXCEPT ![j] = Append(@, Shown(jobs_store', j))]
    /\ response' = NoResponse
    /\ UNCHANGED cancelled_jobs
    /\ UNCHANGED svcvars

\* process_complete_video returns or raises; the final write of the job.
PipelineSummarize(j) ==
    /\ task[j].pc = "summarizing"
    /\ \E llm \in LlmOutcomes :
           LET url == jobs_store[j].request.url
               transcript == task[j].transcript
               result == IF llm.ok
                         THEN RealResult(j, transcript, process_complete_video(transcript, url, llm))
                         ELSE FallbackResult(j, url)
               step == IF llm.ok THEN "Completed" ELSE "Completed (fallback)"
           IN  /\ jobs_store' = [jobs_store EXCEPT
                       ![j].status = COMPLETED,
                       ![j].progress.progress_percent = 100,
                       ![j].progress.current_step = step,
                       ![j].result = Some(result)]
               /\ task' = [task EXCEPT ![j].pc = "done", ![j].transcript = << >>,
                                       ![j].llm_raised = ~llm.ok]
    /\ written' = [written EXCEPT ![j] = Append(@, Shown(jobs_store', j))]
    /\ response' = NoResponse
    /\ UNCHANGED cancelled_jobs
    /\ UNCHANGED svcvars

\* Mutation of PipelineRaise: the handler drops the error text.
PipelineRaiseSilent(j) ==
    /\ task[j].pc = "stage"
    /\ \E e \in ErrorTexts :
           /\ jobs_store' = [jobs_store EXCEPT ![j].status = FAILED]
           /\ task' = [task EXCEPT ![j].pc = "failed", ![j].exception = Some(e)]
    /\ written' = [written EXCEPT ![j] = Append(@, Shown(jobs_store', j))]
    /\ response' = NoResponse
    /\ UNCHANGED cancelled_jobs
    /\ UNCHANGED svcvars

\* An exception escapes the staged loop (the logging call or the sleep of
\* a stage raises) and reaches the outer handler of process_video_pipeline.
\* The transcript fetch and the summarization have handlers of their own,
\* and the logging calls outside the loop are taken not to raise.
PipelineRaise(j) ==
    /\ task[j].pc = "stage"
    /\ \E e \in ErrorTexts :
           /\ jobs_store' = [jobs_store EXCEPT ![j].status = FAILED, ![j].error = Some(e)]
           /\ task' = [task EXCEPT ![j].pc = "failed", ![j].exception = Some(e)]
    /\ written' = [written EXCEPT ![j] = Append(@, Shown(jobs_store', j))]
    /\ response' = NoResponse
    /\ UNCHANGED cancelled_jobs
    /\ UNCHANGED svcvars

\* Mutation of get_job_status: the status is read from the progress record.
get_job_status_stale(job_id) ==
    /\ response' =
           IF job_id \notin DOMAIN jobs_store
           THEN [op |-> "status", job_id |-> job_id, status_code |-> 404, body |-> None]
           ELSE LET job_data == jobs_store[job_id]
                IN  [op |-> "status", job_id |-> job_id, status_code |-> 200,
                     body |-> Some([job_id |-> job_id,
                                    status |-> job_data.progress.status,
                                    progress |-> job_data.progress,
                                    result |-> job_data.result,
                                    error |-> job_data.error])]
    /\ UNCHANGED <<jobs_store, task, written, cancelled_jobs>>
    /\ UNCHANGED svcvars

\* GET /status/{job_id}
get_job_status(job_id) ==
    /\ response' =
           IF job_id \notin DOMAIN jobs_store
           THEN [op |-> "status", job_id |-> job_id, status_code |-> 404, body |-> None]
           ELSE LET job_data == jobs_store[job_id]
                IN  [op |-> "status", job_id |-> job_id, status_code |-> 200,
                     body |-> Some([job_id |-> job_id,
                                    status |-> job_data.status,
                                    progress |-> job_data.progress,
                                    result |-> job_data.result,
                                    error |-> job_data.error])]
    /\ UNCHANGED <<jobs_store, task, written, cancelled_jobs>>
    /\ UNCHANGED svcvars

\* Mutation of TerminalStatuses: a cancelled job can be cancelled again.
TerminalStatusesShort == {COMPLETED, FAILED}

\* The states cancel_job refuses.
TerminalStatuses == {COMPLETED, FAILED, CANCELLED}

\* Mutation of cancel_job: the cancel also resets the progress.
cancel_job_reset(job_id) ==
    /\ IF job_id \notin DOMAIN jobs_store
       THEN /\ response' = [op |-> "cancel", job_id |-> job_id, status_code |-> 404, body |-> None]
            /\ UNCHANGED <<jobs_store, cancelled_jobs>>
       ELSE IF jobs_store[job_id].status \in TerminalStatuses
       THEN /\ response' = [op |-> "cancel", job_id |-> job_id, status_code |-> 400, body |-> None]
            /\ UNCHANGED <<jobs_store, cancelled_jobs>>
       ELSE /\ jobs_store' = [jobs_store EXCEPT
                    ![job_id].status = CANCELLED,
                    ![job_id].progress.progress_percent = 0,
                    ![job_id].progress.current_step = "Cancelled by user"]
            /\ response' = [op |-> "cancel", job_id |-> job_id, status_code |-> 200,
                            body |-> Some([message |-> "cancelled successfully"])]
            /\ cancelled_jobs' = cancelled_jobs \cup {job_id}
    /\ UNCHANGED <<task, written>>
    /\ UNCHANGED svcvars

\* DELETE /status/{job_id}
cancel_job(job_id) ==
    /\ IF job_id \notin DOMAIN jobs_store
       THEN /\ response' = [op |-> "cancel", job_id |-> job_id, status_code |-> 404, body |-> None]
            /\ UNCHANGED <<jobs_store, cancelled_jobs>>
       ELSE IF jobs_store[job_id].status \in TerminalStatuses
       THEN /\ response' = [op |-> "cancel", job_id |-> job_id, status_code |-> 400, body |-> None]
            /\ UNCHANGED <<jobs_store, cancelled_jobs>>
       ELSE /\ jobs_store' = [jobs_store EXCEPT
                    ![job_id].status = CANCELLED,
                    ![job_id].progress.current_step = "Cancelled by user"]
            /\ response' = [op |-> "cancel", job_id |-> job_id, status_code |-> 200,
                            body |-> Some([message |-> "cancelled successfully"])]
            /\ cancelled_jobs' = cancelled_jobs \cup {job_id}
    /\ UNCHANGED <<task, written>>
    /\ UNCHANGED svcvars

\* State after module import: an empty store and no task.
Init ==
    /\ jobs_store = << >>
    /\ task = [j \in JobIds |-> NoTask]
    /\ response = NoResponse
    /\ written = [j \in JobIds |-> << >>]
    /\ cancelled_jobs = {}
    /\ summary_tasks = [t \in SummaryTypes |-> NoSummaryTask]
    /\ call = NoCall

Next ==
    \/ \E request \in Requests : ingest_video(request)
    \/ \E j \in JobIds : PipelineStage(j)
    \/ \E j \in JobIds : PipelineFetchTranscript(j)
    \/ \E j \in JobIds : PipelineSummarize(j)
    \/ \E j \in JobIds : PipelineRaise(j)
    \/ \E job_id \in LookupIds : get_job_status(job_id)
    \/ \E job_id \in LookupIds : cancel_job(job_id)

Spec == Init /\ [][Next]_vars

\* The event loop runs every task that is ready: the sleep of a stage ends,
\* the captions retrieval returns or fails, and the chat completions of
\* process_complete_video return or fail.  Each of these steps changes the
\* record of its task.
Fairness ==
    \A j \in JobIds :
        WF_task(\/ PipelineStage(j)
                \/ PipelineFetchTranscript(j)
                \/ PipelineSummarize(j))

\* The steps that write the store: a status request reads it only and is
\* left out of the runs that are followed to their end.
NextLive ==
    \/ \E request \in Requests : ingest_video(request)
    \/ \E j \in JobIds : PipelineStage(j)
    \/ \E j \in JobIds : PipelineFetchTranscript(j)
    \/ \E j \in JobIds : PipelineSummarize(j)
    \/ \E j \in JobIds : PipelineRaise(j)
    \/ \E job_id \in LookupIds : cancel_job(job_id)

SpecLive == Init /\ [][NextLive]_vars /\ Fairness

\* LLM client and summarization service as coroutines
\* (app/services/llm_client.py, app/services/summarization.py).
\* get_llm_client() is taken to return the AzureOpenAIClient.

\* A coroutine that has been created and has not run yet.
NewSummaryTask(entry, chunks) ==
    [NoSummaryTask EXCEPT !.entry = entry, !.pc = "start", !.chunks = chunks]

\* Mutation of reduce_summaries: a single summary is sent to the service
\* like any other list.
reduce_summaries_always(rec, summaries, summary_type) ==
    [rec EXCEPT !.pc = "reduce",
                !.requests = Append(@, ReduceRequest(summaries, summary_type))]

\* reduce_summaries(summaries, summary_type) up to its first await: a single
\* summary is returned as it is, anything else is sent to the service.
\* Called from a generate method, the value returned is the final text that
\* _parse_bullet_points or _parse_summary_sections then takes.
reduce_summaries(rec, summaries, summary_type) ==
    IF Len(summaries) = 1
    THEN [rec EXCEPT !.pc = "returned", !.ret = Some(summaries[1])]
    ELSE [rec EXCEPT !.pc = "reduce",
                     !.requests = Append(@, ReduceRequest(summaries, summary_type))]

\* What the caller of process_transcript_chunks does with the list it
\* returns: the caller itself returns it, or a generate method passes it to
\* reduce_summaries.
AfterChunks(rec, summaries, summary_type) ==
    IF rec.entry = "process_transcript_chunks"
    THEN [rec EXCEPT !.pc = "returned", !.ret = Some(summaries)]
    ELSE reduce_summaries(rec, summaries, summary_type)

\* Semaphore.locked(): no free slot, or somebody is waiting.
locked(rec) == rec.value = 0 \/ rec.waiters # <<>>

\* Semaphore._wake_up_next(): the first waiter that has not been woken yet
\* is given a slot and made ready.
_wake_up_next(rec) ==
    LET pending == SelectSeq(rec.waiters, LAMBDA i : rec.call[i] = "waiting")
    IN  IF pending = <<>> THEN rec
        ELSE [rec EXCEPT !.value = @ - 1, !.call[Head(pending)] = "woken"]

\* Semaphore.release()
release(rec) == _wake_up_next([rec EXCEPT !.value = @ + 1])

\* Mutation of acquire: the semaphore lets every task in.
acquire_open(rec, i, summary_type) ==
    [rec EXCEPT !.call[i] = "in_flight",
                !.requests = Append(@, MapRequest(rec.chunks[i], summary_type))]

\* async with semaphore, entered by the task of chunk i: if the semaphore
\* is not locked the task takes a slot and awaits its generate_summary
\* coroutine, which runs up to the chat-completion call; otherwise the task
\* joins the waiters.
acquire(rec, i, summary_type) ==
    IF ~locked(rec)
    THEN [rec EXCEPT !.value = @ - 1,
                     !.call[i] = "in_flight",
                     !.requests = Append(@, MapRequest(rec.chunks[i], summary_type))]
    ELSE [rec EXCEPT !.call[i] = "waiting", !.waiters = Append(@, i)]

RECURSIVE process_with_semaphore(_, _, _)
\* The first run of the process_with_semaphore tasks of the chunks i, i+1,
\* ...: the gather has made them ready in the order of the chunks and the
\* event loop runs all of them, each up to its first await, before it polls
\* for an answer of the service.
process_with_semaphore(rec, i, summary_type) ==
    IF i > Len(rec.call) THEN rec
    ELSE process_with_semaphore(acquire(rec, i, summary_type), i + 1, summary_type)

\* process_transcript_chunks(chunks, summary_type) up to the moment all its
\* coroutines are suspended: one generate_summary coroutine per chunk, a
\* fresh semaphore, one process_with_semaphore task per coroutine, and the
\* gather of the tasks.  The gather of no task is done at once.
process_transcript_chunks(rec, summary_type) ==
    IF rec.chunks = <<>>
    THEN AfterChunks(rec, <<>>, summary_type)
    ELSE process_with_semaphore(
             [rec EXCEPT !.pc = "map",
                         !.call = [i \in 1..Len(rec.chunks) |-> "created"],
                         !.value = SemaphoreLimit,
                         !.waiters = <<>>,
                         !.results = [i \in 1..Len(rec.chunks) |-> None]],
             1, summary_type)

\* generate_short_summary, generate_detailed_summary, extract_key_ideas and
\* extract_actionable_takeaways up to their first await: only the short
\* summary of a single chunk calls generate_summary itself.
generate(rec, summary_type) ==
    IF summary_type = "short" /\ Len(rec.chunks) = 1
    THEN [rec EXCEPT !.pc = "direct",
                     !.requests = Append(@, MapRequest(rec.chunks[1], "short"))]
    ELSE process_transcript_chunks(rec, summary_type)

\* The event loop runs a created coroutine for the first time.
StartSummaryTask(t) ==
    /\ summary_tasks[t].pc = "start"
    /\ LET rec == summary_tasks[t]
       IN  summary_tasks' = [summary_tasks EXCEPT ![t] =
               CASE rec.entry = "process_transcript_chunks" -> process_transcript_chunks(rec, t)
                 [] rec.entry = "reduce_summaries" -> reduce_summaries(rec, rec.chunks, t)
                 [] OTHER -> generate(rec, t)]
    /\ UNCHANGED <<jobvars, call>>

\* A woken task runs again: it leaves the waiters, passes a spare slot on,
\* and awaits its generate_summary coroutine, which runs up to the
\* chat-completion call.  Woken tasks run in the order they were woken.
SemaphoreAcquired(t) ==
    /\ summary_tasks[t].waiters # <<>>
    /\ summary_tasks[t].call[Head(summary_tasks[t].waiters)] = "woken"
    /\ LET rec == summary_tasks[t]
           i == Head(rec.waiters)
           left == [rec EXCEPT !.waiters = Tail(@)]
           passed == IF left.value > 0 THEN _wake_up_next(left) ELSE left
       IN  summary_tasks' = [summary_tasks EXCEPT ![t] =
               [passed EXCEPT !.call[i] = "in_flight",
                              !.requests = Append(@, MapRequest(rec.chunks[i], t))]]
    /\ UNCHANGED <<jobvars, call>>

\* Mutation of GatherResult: the results are kept in completion order.
GatherResultAsCompleted(results, i, value) ==
    LET k == CHOOSE k \in 1..Len(results) :
                 results[k] = None /\ \A m \in 1..(k - 1) : results[m] # None
    IN  [results EXCEPT ![k] = Some(value)]

\* asyncio.gather keeps the value of its i-th awaitable at position i.
GatherResult(results, i, value) == [results EXCEPT ![i] = Some(value)]

\* The chat-completion call of chunk i answers: generate_summary returns
\* the text, the task leaves the async with block and releases its slot.
GenerateSummaryReturns(t, i) ==
    /\ i \in 1..Len(summary_tasks[t].call)
    /\ summary_tasks[t].call[i] = "in_flight"
    /\ LET rec == summary_tasks[t]
       IN  summary_tasks' = [summary_tasks EXCEPT ![t] =
               release([rec EXCEPT !.call[i] = "returned",
                                   !.results = GatherResult(@, i,
                                       Completion(MapRequest(rec.chunks[i], t)))])]
    /\ UNCHANGED <<jobvars, call>>

\* The chat-completion call of chunk i fails: generate_summary re-raises,
\* the slot is released, and the gather hands the first exception to
\* process_transcript_chunks, which re-raises it; the other tasks of the
\* gather are not cancelled.  Failing chunk calls are followed for a call of
\* process_transcript_chunks on its own: the semaphore belongs to the call,
\* so the four gathered coroutines of a video fail in the same way each.
GenerateSummaryRaises(t, i) ==
    /\ summary_tasks[t].entry = "process_transcript_chunks"
    /\ i \in 1..Len(summary_tasks[t].call)
    /\ summary_tasks[t].call[i] = "in_flight"
    /\ summary_tasks' = [summary_tasks EXCEPT ![t] =
           release([@ EXCEPT !.call[i] = "raised", !.pc = "raised"])]
    /\ UNCHANGED <<jobvars, call>>

\* Every task of the gather has returned: process_transcript_chunks returns
\* the list of results.
GatherDone(t) ==
    /\ summary_tasks[t].pc = "map"
    /\ \A i \in 1..Len(summary_tasks[t].call) : summary_tasks[t].call[i] = "returned"
    /\ LET rec == summary_tasks[t]
           results == [i \in 1..Len(rec.results) |-> rec.results[i][1]]
       IN  summary_tasks' = [summary_tasks EXCEPT ![t] = AfterChunks(rec, results, t)]
    /\ UNCHANGED <<jobvars, call>>

\* The chat-completion call of reduce_summaries, or the one of
\* generate_short_summary, answers.
CompletionReturns(t) ==
    /\ summary_tasks[t].pc \in {"reduce", "direct"}
    /\ LET rec == summary_tasks[t]
       IN  summary_tasks' = [summary_tasks EXCEPT ![t] =
               [rec EXCEPT !.pc = "returned",
                           !.ret = Some(Completion(rec.requests[Len(rec.requests)]))]]
    /\ UNCHANGED <<jobvars, call>>

\* The chat-completion call of reduce_summaries, or the one of
\* generate_short_summary, fails and the exception is re-raised.
CompletionRaises(t) ==
    /\ summary_tasks[t].pc \in {"reduce", "direct"}
    /\ summary_tasks' = [summary_tasks EXCEPT ![t].pc = "raised"]
    /\ UNCHANGED <<jobvars, call>>

\* Bound: the largest number of chunks (or of summaries) of one call of a
\* client method.
MaxChunks == 4

\* The numbers of chunks of the videos process_complete_video is run on.
VideoChunkCounts == {0, 1, 4}

\* The summaries of n chunks, as process_transcript_chunks returns them.
ChunkSummaries(n, summary_type) ==
    [i \in 1..n |-> Completion(MapRequest(ChunkTexts(n)[i], summary_type))]

\* One call of a client method, or one process_complete_video with its four
\* gathered coroutines.
InitSummaries ==
    /\ jobs_store = << >>
    /\ task = [j \in JobIds |-> NoTask]
    /\ response = NoResponse
    /\ written = [j \in JobIds |-> << >>]
    /\ cancelled_jobs = {}
    /\ call = NoCall
    /\ \/ \E t \in SummaryTypes, n \in 0..MaxChunks :
              summary_tasks = [u \in SummaryTypes |->
                  IF u = t THEN NewSummaryTask("process_transcript_chunks", ChunkTexts(n))
                  ELSE NoSummaryTask]
       \/ \E t \in SummaryTypes, n \in 0..MaxChunks :
              summary_tasks = [u \in SummaryTypes |->
                  IF u = t THEN NewSummaryTask("reduce_summaries", ChunkSummaries(n, t))
                  ELSE NoSummaryTask]
       \/ \E n \in VideoChunkCounts :
              summary_tasks = [u \in SummaryTypes |->
                  NewSummaryTask("generate", ChunkTexts(n))]

NextSummaries ==
    \/ \E t \in SummaryTypes : StartSummaryTask(t)
    \/ \E t \in SummaryTypes : SemaphoreAcquired(t)
    \/ \E t \in SummaryTypes, i \in 1..(MaxChunks + 1) : GenerateSummaryReturns(t, i)
    \/ \E t \in SummaryTypes, i \in 1..(MaxChunks + 1) : GenerateSummaryRaises(t, i)
    \/ \E t \in SummaryTypes : GatherDone(t)
    \/ \E t \in SummaryTypes : CompletionReturns(t)
    \/ \E t \in SummaryTypes : CompletionRaises(t)

SpecSummaries == InitSummaries /\ [][NextSummaries]_vars

\* Calls of the synchronous service functions.

\* Bound: the largest number of segments of a transcript that is chunked.
MaxSegments == 4

\* The caption texts of the transcripts that are chunked: an empty caption,
\* a short one, one of two lines and a long one.
CaptionTexts ==
    { <<>>, <<"Hello", " ", "world">>, <<"line", "\n", "two">>,
      <<"a", " ", "long", " ", "talk">> }

\* The transcripts chunk_transcript is called with: up to MaxSegments
\* segments of thirty seconds each.
Transcripts ==
    UNION { { [i \in 1..n |-> TranscriptSegment(30000 * (i - 1), 30000 * i, f[i])] :
                f \in [1..n -> CaptionTexts] } : n \in 0..MaxSegments }

\* URLs that carry the video id dQw4w9WgXcQ in one of the shapes watch?v=,
\* shorts/, youtu.be/ and embed/: plain, with a trailing query parameter,
\* with v= after another parameter, with scheme and host in capitals.
UrlsWithId ==
    LET id == "dQw4w9WgXcQ"
        origins == { <<"https://", "www.", "youtube.com">>,
                     <<"http://", "youtube.com">>,
                     <<"https://", "m.", "youtube.com">>,
                     <<"HTTPS://", "WWW.", "YOUTUBE.COM">> }
        short_origins == { <<"https://", "youtu.be">>, <<"HTTPS://", "YOUTU.BE">> }
        queries == { <<"/", "watch", "?", "v=", id>>,
                     <<"/", "watch", "?", "time_continue=42", "&", "v=", id>> }
        paths == { <<"/", "shorts", "/", id>>, <<"/", "embed", "/", id>> }
    IN  {o \o q \o t : o \in origins, q \in queries, t \in { <<>>, <<"&", "t=30s">> }}
        \cup {o \o q \o t : o \in origins, q \in paths, t \in { <<>>, <<"?", "t=30s">> }}
        \cup {o \o <<"/", id>> \o t : o \in short_origins, t \in { <<>>, <<"?", "t=30s">> }}

\* A video id on its own, also with white space around it.
BareIds == { <<"dQw4w9WgXcQ">>, <<" ", "dQw4w9WgXcQ", "\n">> }

\* Inputs that carry no video id: another site, a v= value of eight
\* characters, a channel, a playlist, the empty string, plain words.
UrlsWithoutId ==
    { <<"https://", "www.", "google.com">>,
      <<"https://", "example.com", "/", "invalid">>,
      <<"https://", "www.", "youtube.com", "/", "watch", "?", "v=", "tooshort">>,
      <<"https://", "www.", "youtube.com", "/", "channel", "/", "UCuAXFkgsw1L7xaCfnd5JJOw">>,
      <<"https://", "www.", "youtube.com", "/", "playlist", "?", "list=",
        "PLrAXtmRdnEQy6nuLMHjMZOz59Oq8HmPME">>,
      <<>>,
      <<"No transcript found">> }

\* The caption tracks a video lists, in listing order.
TrackLists ==
    LET Track(code, generated) == [language_code |-> code, is_generated |-> generated]
    IN  { <<>>,
          <<Track("en", TRUE)>>,
          <<Track("en", TRUE), Track("es", TRUE)>>,
          <<Track("en", TRUE), Track("fr", FALSE), Track("de", FALSE)>>,
          <<Track("de", FALSE), Track("en", TRUE)>> }

\* What the captions API does for one video: the outcome of each of up to
\* three calls, the tracks it lists, the snippets of the track it returns.
Upstreams ==
    {[outcomes |-> o, tracks |-> t,
      snippets |-> CHOOSE sn \in UpstreamSnippets : sn # <<>>] :
        o \in [1..3 -> ApiOutcomes], t \in TrackLists}

\* The video_url arguments of the calls that fetch a transcript.
FetchUrls ==
    { <<"dQw4w9WgXcQ">>,
      <<"https://", "www.", "youtube.com", "/", "watch", "?", "v=", "dQw4w9WgXcQ">>,
      <<"https://", "example.com", "/", "invalid">>,
      <<"No transcript found">> }

\* Mindmap nodes as the model keeps them: id, parent_id (None for a root)
\* and level; label and category play no part in the validators of Mindmap.
MindmapNode(id, parent_id, level) == [id |-> id, parent_id |-> parent_id, level |-> level]

\* The node lists a Mindmap is constructed from: up to two nodes with the
\* ids a and b (an id may repeat), without parent or with parent a, b, the
\* absent id c or the empty string.
MindmapNodeLists ==
    LET nodes == {MindmapNode(id, parent_id, IF parent_id = None THEN 0 ELSE 1) :
                     id \in {"a", "b"},
                     parent_id \in {None, Some("a"), Some("b"), Some("c"), Some("")}}
    IN  UNION { [1..n -> nodes] : n \in 0..2 }

\* The nodes, in list order, that validate_node_hierarchy rejects: parent_id
\* is truthy (neither None nor the empty string) and is the id of no node.
OrphanNodes(v) ==
    LET node_ids == {v[k].id : k \in 1..Len(v)}
    IN  SelectSeq(v, LAMBDA node : /\ node.parent_id # None
                                   /\ node.parent_id[1] # ""
                                   /\ node.parent_id[1] \notin node_ids)

\* Mindmap(nodes=v): the two validators of nodes run in the order of their
\* definition, and the first ValueError ends the validation of the field.
Mindmap(v) ==
    IF v = <<>>
    THEN RaisedError("ValidationError", <<"Mindmap must have at least one node">>, <<>>)
    ELSE IF OrphanNodes(v) # <<>>
         THEN LET node == Head(OrphanNodes(v))
              IN  RaisedError("ValidationError",
                              <<"Parent node ", node.parent_id[1],
                                " not found for node ", node.id>>, <<>>)
         ELSE Returned(v, <<>>)

\* The calls a client of the services makes, by function.
PendingCalls(fn) ==
    CASE fn = "chunk_transcript" ->
           {NewCall(fn, <<tr>>) : tr \in Transcripts}
      [] fn \in {"extract_video_id", "validate_youtube_url"} ->
           {NewCall(fn, <<url>>) :
               url \in UrlsWithId \cup BareIds \cup UrlsWithoutId \cup
                   { <<"https://", "www.", "youtube.com", "/", "watch", "?", "v=",
                       "dQw4w9WgXcQ123">>,
                     <<"https://", "example.com", "/", "?", "u=", "https://", "youtu.be", "/",
                       "dQw4w9WgXcQ">> }}
      [] fn = "_estimate_timestamp" ->
           LET texts == { <<"supervised", " ", "learning">>, <<"Labeled", " ", "data">>,
                          <<"practice", " ", "data">>, <<"learning", "\n", "Supervised">> }
               contents == { <<>>, <<" ">>, <<"thanks">>, <<"Supervised", " ", "learning">>,
                             <<"labeled", " ", "data", " ", "practice">> }
               transcripts == UNION { { [i \in 1..n |->
                                           TranscriptSegment(5000 * (i - 1), 5000 * i, f[i])] :
                                        f \in [1..n -> texts] } : n \in 0..MaxSegments - 1 }
           IN  {NewCall(fn, <<content, transcript>>) :
                   content \in contents, transcript \in transcripts}
      [] fn = "_estimate_timestamp_by_position" ->
           LET transcripts == { <<>>,
                                <<TranscriptSegment(0, 5000, <<"Hello">>)>>,
                                <<TranscriptSegment(0, 5000, <<"Hello">>),
                                  TranscriptSegment(5000, 20000, <<"world">>)>>,
                                <<TranscriptSegment(100, 12345, <<"Hello">>)>> }
           IN  {NewCall(fn, <<position, total_sections, transcript>>) :
                   position \in 0..MaxSegments, total_sections \in 0..MaxSegments,
                   transcript \in transcripts}
      [] fn = "Mindmap" ->
           {NewCall(fn, <<nodes>>) : nodes \in MindmapNodeLists}
      [] fn = "fetch_transcript" ->
           {NewCall(fn, <<url, languages, upstream>>) :
               url \in FetchUrls,
               languages \in {None, Some(<<"de">>), Some(<<"de", "fr">>)},
               upstream \in {u \in Upstreams : u.tracks = <<>> /\ u.outcomes[2].fault = "ok"
                                                /\ u.outcomes[3].fault = "ok"}}
      [] fn = "fetch_transcript_with_fallback" ->
           {NewCall(fn, <<url, preferred_languages, upstream>>) :
               url \in FetchUrls,
               preferred_languages \in {None, Some(<<>>), Some(<<"de">>), Some(<<"de", "fr">>)},
               upstream \in Upstreams}

\* The service functions called.
ServiceFunctions ==
    {"chunk_transcript", "extract_video_id", "validate_youtube_url", "fetch_transcript",
     "fetch_transcript_with_fallback", "_estimate_timestamp",
     "_estimate_timestamp_by_position", "Mindmap"}

\* The call has not run.
Pending(c) == c.ret = None /\ c.raised = None

\* chunk_transcript runs.
RunChunkTranscript ==
    /\ call.fn = "chunk_transcript" /\ Pending(call)
    /\ call' = [call EXCEPT !.ret = Some(chunk_transcript(call.args[1]))]
    /\ UNCHANGED <<jobvars, summary_tasks>>

\* extract_video_id runs.
RunExtractVideoId ==
    /\ call.fn = "extract_video_id" /\ Pending(call)
    /\ call' = Finished(call, extract_video_id(call.args[1]))
    /\ UNCHANGED <<jobvars, summary_tasks>>

\* A VideoIngestRequest is constructed: the validator of url runs.
RunValidateYoutubeUrl ==
    /\ call.fn = "validate_youtube_url" /\ Pending(call)
    /\ call' = Finished(call, validate_youtube_url(call.args[1]))
    /\ UNCHANGED <<jobvars, summary_tasks>>

\* _estimate_timestamp runs.
RunEstimateTimestamp ==
    /\ call.fn = "_estimate_timestamp" /\ Pending(call)
    /\ call' = [call EXCEPT !.ret = Some(_estimate_timestamp(call.args[1], call.args[2]))]
    /\ UNCHANGED <<jobvars, summary_tasks>>

\* _estimate_timestamp_by_position runs.
RunEstimateTimestampByPosition ==
    /\ call.fn = "_estimate_timestamp_by_position" /\ Pending(call)
    /\ call' = [call EXCEPT !.ret = Some(_estimate_timestamp_by_position(
                                             call.args[1], call.args[2], call.args[3]))]
    /\ UNCHANGED <<jobvars, summary_tasks>>

\* fetch_transcript runs.
RunFetchTranscript ==
    /\ call.fn = "fetch_transcript" /\ Pending(call)
    /\ call' = Finished(call, fetch_transcript(call.args[1], call.args[2], call.args[3], <<>>))
    /\ UNCHANGED <<jobvars, summary_tasks>>

\* fetch_transcript_with_fallback runs.
RunFetchTranscriptWithFallback ==
    /\ call.fn = "fetch_transcript_with_fallback" /\ Pending(call)
    /\ call' = Finished(call,
                   fetch_transcript_with_fallback(call.args[1], call.args[2], call.args[3]))
    /\ UNCHANGED <<jobvars, summary_tasks>>

\* A Mindmap is constructed.
RunMindmap ==
    /\ call.fn = "Mindmap" /\ Pending(call)
    /\ call' = Finished(call, Mindmap(call.args[1]))
    /\ UNCHANGED <<jobvars, summary_tasks>>

\* One call of a service function.
InitCalls ==
    /\ jobs_store = << >>
    /\ task = [j \in JobIds |-> NoTask]
    /\ response = NoResponse
    /\ written = [j \in JobIds |-> << >>]
    /\ cancelled_jobs = {}
    /\ summary_tasks = [t \in SummaryTypes |-> NoSummaryTask]
    /\ \E fn \in ServiceFunctions : call \in PendingCalls(fn)

NextCalls ==
    \/ RunChunkTranscript
    \/ RunExtractVideoId
    \/ RunValidateYoutubeUrl
    \/ RunEstimateTimestamp
    \/ RunEstimateTimestampByPosition
    \/ RunFetchTranscript
    \/ RunFetchTranscriptWithFallback
    \/ RunMindmap

SpecCalls == InitCalls /\ [][NextCalls]_vars

\* Properties.

\* a is a prefix of b.
IsPrefix(a, b) == Len(a) <= Len(b) /\ a = SubSeq(b, 1, Len(a))

\* The declared order of statuses with their progress percentages.
DeclaredOrder ==
    << <<"pending", 0>>, <<"fetching_metadata", 10>>, <<"fetching_transcript", 25>>,
       <<"chunking", 40>>, <<"mapping", 65>>, <<"reducing", 85>>, <<"finalizing", 95>> >>

C2_IngestCreatesPendingJob ==
    /\ [](\A j \in JobIds : task[j].pc # "none" => j \in DOMAIN jobs_store)
    /\ []((response.op = "status" /\ response.job_id \in JobIds
            /\ task[response.job_id].pc # "none") => response.status_code = 200)
    /\ [][response'.op = "ingest" =>
            LET id == response'.job_id
            IN  /\ id \notin DOMAIN jobs_store
                /\ DOMAIN jobs_store' = DOMAIN jobs_store \cup {id}
                /\ \A k \in DOMAIN jobs_store : jobs_store'[k] = jobs_store[k]
                /\ jobs_store'[id].job_id = id
                /\ jobs_store'[id].status = "pending"
                /\ jobs_store'[id].progress.status = "pending"
                /\ jobs_store'[id].progress.progress_percent = 0
                /\ jobs_store'[id].result = None
                /\ jobs_store'[id].error = None
                /\ response'.status_code = 200
                /\ response'.body[1].job_id = id
                /\ response'.body[1].status = "pending"
                /\ task[id].pc = "none" /\ task'[id].pc = "scheduled"
                /\ written'[id] = << <<"pending", 0>> >>]_vars

\* C2 witness: a status lookup of a freshly ingested job, before the
\* pipeline's first write, is answered with the pending record.
C2_Witness ==
    /\ response.op = "status"
    /\ response.job_id \in DOMAIN jobs_store
    /\ task[response.job_id].pc = "scheduled"
    /\ response.status_code = 200
    /\ response.body[1].status = "pending"

\* C3: a cancel of an unknown id is answered 404 and a cancel of a job whose
\* status is completed, failed or cancelled is answered 400; neither changes
\* the job store.
C3_CancelRejected ==
    [][response'.op = "cancel" =>
          LET id == response'.job_id
          IN  /\ id \notin DOMAIN jobs_store
                 => (response'.status_code = 404 /\ jobs_store' = jobs_store)
              /\ (id \in DOMAIN jobs_store
                  /\ jobs_store[id].status \in {"completed", "failed", "cancelled"})
                 => (response'.status_code = 400 /\ jobs_store' = jobs_store)]_vars

\* C3 witness: a cancel of a job that is already cancelled was refused
\* with 400.
C3_Witness ==
    /\ response.op = "cancel"
    /\ response.status_code = 400
    /\ response.job_id \in DOMAIN jobs_store
    /\ jobs_store[response.job_id].status = "cancelled"

\* C4: a cancel of a job in a non-terminal status is answered 200, sets the
\* status to cancelled and the current step to "Cancelled by user", and
\* leaves progress_percent, result, error and request as they were.
C4_CancelEffect ==
    [][response'.op = "cancel" =>
          LET id == response'.job_id
          IN  (id \in DOMAIN jobs_store
               /\ jobs_store[id].status \in
                      {"pending", "fetching_metadata", "fetching_transcript", "chunking",
                       "mapping", "reducing", "finalizing"})
              => /\ response'.status_code = 200
                 /\ jobs_store'[id].status = "cancelled"
                 /\ jobs_store'[id].progress.current_step = "Cancelled by user"
                 /\ jobs_store'[id].progress.progress_percent
                        = jobs_store[id].progress.progress_percent
                 /\ jobs_store'[id].result = jobs_store[id].result
                 /\ jobs_store'[id].error = jobs_store[id].error
                 /\ jobs_store'[id].request = jobs_store[id].request]_vars

\* C4 witness: a job was cancelled in the mapping stage and keeps its 65
\* percent.
C4_Witness ==
    /\ response.op = "cancel"
    /\ response.status_code = 200
    /\ response.job_id \in DOMAIN jobs_store
    /\ jobs_store[response.job_id].status = "cancelled"
    /\ jobs_store[response.job_id].progress.status = "mapping"
    /\ jobs_store[response.job_id].progress.progress_percent = 65

\* C5 as stated: once a job's status is cancelled or failed, no step gives
\* it another value.
C5_CancelledAndFailedStay ==
    [][\A j \in DOMAIN jobs_store :
           jobs_store[j].status \in {"cancelled", "failed"}
           => jobs_store'[j].status = jobs_store[j].status]_vars

\* C6: a cancel changes nothing of the pipeline task; a cancelled job whose
\* pipeline runs to its end has had all six stage writes and the final
\* write, and its status is then completed, not cancelled.
C6_CancelIsAdvisory ==
    /\ [](\A j \in cancelled_jobs :
             /\ task[j].pc = "done"
                => /\ jobs_store[j].status = "completed"
                   /\ jobs_store[j].result # None
                   /\ SubSeq(written[j], 1, Len(DeclaredOrder)) = DeclaredOrder
                   /\ Len(written[j]) = Len(DeclaredOrder) + 1
                   /\ written[j][Len(written[j])] = <<"completed", 100>>
             /\ task[j].pc \in {"done", "failed"} => jobs_store[j].status # "cancelled")
    /\ [][response'.op = "cancel" => (task' = task /\ written' = written)]_vars

\* C6 witness: a job that was cancelled has been completed by its pipeline.
C6_Witness ==
    \E j \in cancelled_jobs :
        /\ task[j].pc = "done"
        /\ jobs_store[j].status = "completed"
        /\ jobs_store[j].progress.progress_percent = 100

\* C7 as stated: a completed job has progress 100 and a result whose four
\* summary lists and transcript are non-empty, every transcript entry with
\* start_ms <= end_ms.
C7_CompletedResultPopulated ==
    \A j \in DOMAIN jobs_store :
        jobs_store[j].status = "completed"
        => /\ jobs_store[j].progress.progress_percent = 100
           /\ jobs_store[j].result # None
           /\ LET result == jobs_store[j].result[1]
              IN  /\ Len(result.short_summary) > 0
                  /\ Len(result.detailed_summary) > 0
                  /\ Len(result.key_ideas) > 0
                  /\ Len(result.actionable_takeaways) > 0
                  /\ Len(result.transcript) > 0
                  /\ \A i \in 1..Len(result.transcript) :
                         result.transcript[i].start_ms <= result.transcript[i].end_ms

C11_StatusReturnsStored ==
    [][response'.op = "status" =>
          LET id == response'.job_id
              issued == id \in JobIds /\ task[id].pc # "none"
          IN  /\ jobs_store' = jobs_store
              /\ ~issued => (response'.status_code = 404 /\ response'.body = None)
              /\ issued
                 => /\ response'.status_code = 200
                    /\ response'.body[1].job_id = id
                    /\ response'.body[1].status = jobs_store[id].status
                    /\ response'.body[1].progress = jobs_store[id].progress
                    /\ response'.body[1].result = jobs_store[id].result
                    /\ response'.body[1].error = jobs_store[id].error]_vars

\* C11 witness: a status lookup of a job that was cancelled and then
\* completed by its pipeline returned the completed status, the progress
\* record that still names the finalizing stage, and the result.
C11_Witness ==
    /\ response.op = "status"
    /\ response.status_code = 200
    /\ response.job_id \in cancelled_jobs
    /\ response.body[1].status = "completed"
    /\ response.body[1].progress.status = "finalizing"
    /\ response.body[1].result # None

\* The chat-completion calls a coroutine has in flight.
InFlight(rec) ==
    Cardinality({i \in 1..Len(rec.call) : rec.call[i] = "in_flight"})
    + (IF rec.pc \in {"reduce", "direct"} THEN 1 ELSE 0)

\* The number of requests of a log that are equal to request.
Sent(requests, request) ==
    Cardinality({k \in 1..Len(requests) : requests[k] = request})

\* C12: in a call of process_transcript_chunks at most 3 chunk calls are in
\* flight at any moment; a chunk whose task holds or has held a slot has had
\* exactly one request sent for it and no other chunk has had any; and the
\* list returned has one entry per chunk, entry i being the answer to the
\* request of chunk i, whatever the order the answers came in.
C12_OneGatedCallPerChunk ==
    \A t \in SummaryTypes :
        LET rec == summary_tasks[t]
            n == Len(rec.chunks)
        IN  rec.entry = "process_transcript_chunks"
            => /\ Cardinality({i \in 1..Len(rec.call) : rec.call[i] = "in_flight"}) <= 3
               /\ \A i \in 1..Len(rec.call) :
                      Sent(rec.requests, MapRequest(rec.chunks[i], t))
                          = IF rec.call[i] \in {"in_flight", "returned", "raised"} THEN 1 ELSE 0
               /\ Len(rec.requests) <= n
               /\ \A i \in 1..Len(rec.results) :
                      rec.results[i] # None
                      => rec.results[i][1] = <<"Summary", " ", "of", " ">> \o rec.chunks[i]
               /\ rec.pc = "returned"
                  => /\ Len(rec.requests) = n
                     /\ Len(rec.ret[1]) = n
                     /\ \A i \in 1..n :
                            rec.ret[1][i] = <<"Summary", " ", "of", " ">> \o rec.chunks[i]

\* C12 witness: a call over four chunks in which the second chunk's answer
\* came first and is kept at position 2, the fourth chunk got the freed
\* slot, and three calls are in flight.
C12_Witness ==
    \E t \in SummaryTypes :
        /\ summary_tasks[t].entry = "process_transcript_chunks"
        /\ summary_tasks[t].call = <<"in_flight", "returned", "in_flight", "in_flight">>
        /\ summary_tasks[t].results[1] = None
        /\ summary_tasks[t].results[2] = Some(<<"Summary", " ", "of", " ", "chunk", " ", "2">>)

\* C13: the chat-completion calls in flight for the coroutines of one
\* process_complete_video never number more than 12, each coroutine having
\* at most 3.
C13_AtMostTwelveInFlight ==
    /\ InFlight(summary_tasks["short"]) + InFlight(summary_tasks["detailed"])
       + InFlight(summary_tasks["key_ideas"]) + InFlight(summary_tasks["takeaways"]) <= 12
    /\ \A t \in SummaryTypes : InFlight(summary_tasks[t]) <= 3

\* C13 witness: the four coroutines of one process_complete_video have three
\* calls in flight each, twelve in all, more than the 3 of one semaphore.
C13_Witness ==
    /\ \A t \in SummaryTypes :
           /\ summary_tasks[t].entry = "generate"
           /\ InFlight(summary_tasks[t]) = 3
    /\ InFlight(summary_tasks["short"]) + InFlight(summary_tasks["detailed"])
       + InFlight(summary_tasks["key_ideas"]) + InFlight(summary_tasks["takeaways"]) > 3

RECURSIVE SectionsAt(_, _, _, _)
\* content holds, from position p on, the summaries k, k+1, ... each under
\* its header "Section k:" and a blank line between two of them, and
\* nothing after the last.
SectionsAt(content, p, summaries, k) ==
    IF k > Len(summaries) THEN p = Len(content) + 1
    ELSE LET q == p + 5 + Len(summaries[k])
         IN  /\ q - 1 <= Len(content)
             /\ SubSeq(content, p, p + 4) = <<"Section", " ", Decimal[k], ":", "\n">>
             /\ SubSeq(content, p + 5, q - 1) = summaries[k]
             /\ IF k < Len(summaries)
                THEN /\ q + 1 <= Len(content)
                     /\ content[q] = "\n" /\ content[q + 1] = "\n"
                     /\ SectionsAt(content, q + 2, summaries, k + 1)
                ELSE q = Len(content) + 1

\* C14: reduce_summaries of a single summary returns that summary and sends
\* no request; reduce_summaries of N > 1 summaries sends exactly one
\* request, whose text holds all N summaries in input order under the
\* headers Section 1 .. Section N.
C14_ReduceSingleOrOneCall ==
    \A t \in SummaryTypes :
        LET rec == summary_tasks[t]
            N == Len(rec.chunks)
        IN  (rec.entry = "reduce_summaries" /\ rec.pc # "start")
            => /\ N = 1 => (rec.pc = "returned" /\ rec.ret = Some(rec.chunks[1])
                            /\ rec.requests = <<>>)
               /\ N > 1 => /\ Len(rec.requests) = 1
                           /\ rec.requests[1].fn = "reduce_summaries"
                           /\ SectionsAt(rec.requests[1].content, 4, rec.chunks, 1)

\* C14 witness: reduce_summaries of three summaries has returned the answer
\* to its one request.
C14_Witness ==
    \E t \in SummaryTypes :
        /\ summary_tasks[t].entry = "reduce_summaries"
        /\ Len(summary_tasks[t].chunks) = 3
        /\ summary_tasks[t].pc = "returned"
        /\ Len(summary_tasks[t].requests) = 1

RECURSIVE JoinSegments(_, _, _)
\* The texts of the segments a..b of a transcript, each with its time
\* stamp, one per line.
JoinSegments(transcript, a, b) ==
    IF a > b THEN <<>>
    ELSE <<"[">> \o _format_timestamp(transcript[a].start_ms) \o <<"]", " ">>
         \o transcript[a].text
         \o (IF a < b THEN <<"\n">> ELSE <<>>)
         \o JoinSegments(transcript, a + 1, b)

RECURSIVE TokenSum(_, _, _)
\* The sum of the token counts of the segments a..b.
TokenSum(transcript, a, b) ==
    IF a > b THEN 0
    ELSE count_tokens(segment_text(transcript[a])) + TokenSum(transcript, a + 1, b)

\* C15: the chunks of a transcript are the texts of consecutive runs of its
\* segments that cover it in order: there are run ends e[1] < ... < e[m] = n
\* such that chunk k is the text of the segments e[k-1]+1 .. e[k], each with
\* its time stamp, one per line, with the white space at the two ends of the
\* chunk removed; no chunk is empty; the token counts of the segments of a
\* chunk sum to at most the budget unless the chunk is a single segment
\* over the budget; and no segment gives no chunk.
C15_ChunksPartitionTranscript ==
    (call.fn = "chunk_transcript" /\ call.ret # None)
    => LET transcript == call.args[1]
           chunks == call.ret[1]
           n == Len(transcript)
           m == Len(chunks)
       IN  /\ n = 0 => m = 0
           /\ n > 0 =>
                 /\ m \in 1..n
                 /\ \E e \in [0..m -> 0..n] :
                        /\ e[0] = 0 /\ e[m] = n
                        /\ \A k \in 1..m :
                               /\ e[k - 1] < e[k]
                               /\ chunks[k] # <<>>
                               /\ chunks[k] = Strip(JoinSegments(transcript, e[k - 1] + 1, e[k]))
                               /\ \/ TokenSum(transcript, e[k - 1] + 1, e[k]) <= 1500
                                  \/ /\ e[k] = e[k - 1] + 1
                                     /\ count_tokens(segment_text(transcript[e[k]])) > 1500

\* C15 witness: a transcript of four segments has been cut into three
\* chunks, the middle one a single segment over the budget and the first
\* one of two segments that fill the budget exactly.
C15_Witness ==
    /\ call.fn = "chunk_transcript" /\ call.ret # None
    /\ Len(call.args[1]) = 4
    /\ Len(call.ret[1]) = 3
    /\ call.args[1][1].text = <<"Hello", " ", "world">>
    /\ call.args[1][2].text = <<"line", "\n", "two">>
    /\ call.args[1][3].text = <<"a", " ", "long", " ", "talk">>
    /\ call.ret[1][1] = <<"[", "00", ":", "00", "]", " ", "Hello", " ", "world", "\n",
                          "[", "00", ":", "30", "]", " ", "line", "\n", "two">>

\* The kind of failure a first fetch_transcript(video_url, ...) of call c
\* meets: "ok" when it meets none.
FirstFailure(c) ==
    IF ~extract_video_id(c.args[1]).ok
    THEN "ValueError"
    ELSE c.args[3].outcomes[1].fault

\* The places of the trace of call c with the operation op.
TraceOps(c, op) == {i \in 1..Len(c.trace) : c.trace[i].op = op}

\* C16 as stated: with preferred languages given, a failure of the first
\* fetch other than "no transcript found for the requested languages"
\* propagates at once: no query of the available transcripts and no second
\* fetch are made, and the caller gets the failure of the first fetch.
C16_OtherFailuresPropagate ==
    (/\ call.fn = "fetch_transcript_with_fallback" /\ ~Pending(call)
     /\ call.args[2] # None /\ call.args[2][1] # <<>>
     /\ FirstFailure(call) \notin {"ok", "NoTranscriptFound"}) =>
        /\ TraceOps(call, "get_available_transcripts") = {}
        /\ TraceOps(call, "api.list") = {}
        /\ Cardinality(TraceOps(call, "fetch_transcript")) = 1
        /\ call.raised = fetch_transcript(call.args[1], call.args[2], call.args[3], <<>>).exc

\* C17: once the fallback logic has the list of tracks, an empty list fails
\* with "No transcripts available for this video" and no further fetch;
\* otherwise exactly one further fetch_transcript call follows, with the one
\* language code of the first track that is not machine-generated, or of the
\* first track when all are.
C17_FallbackPicksManualFirst ==
    (/\ call.fn = "fetch_transcript_with_fallback" /\ ~Pending(call)
     /\ TraceOps(call, "api.list") # {}
     /\ call.args[3].outcomes[NextApiCall(
            SubSeq(call.trace, 1, (CHOOSE i \in TraceOps(call, "api.list") : TRUE) - 1))].fault
          = "ok") =>
        LET listed == CHOOSE i \in TraceOps(call, "api.list") : TRUE
            tracks == call.args[3].tracks
            manual == {i \in 1..Len(tracks) : ~tracks[i].is_generated}
            code == IF manual # {}
                    THEN tracks[CHOOSE i \in manual : \A j \in manual : i <= j].language_code
                    ELSE tracks[1].language_code
            later == {i \in TraceOps(call, "fetch_transcript") : i > listed}
        IN  /\ Cardinality(TraceOps(call, "api.list")) = 1
            /\ tracks = <<>> =>
                 /\ later = {} /\ Len(call.trace) = listed
                 /\ call.ret = None
                 /\ call.raised = Some([type |-> "ValueError",
                        message |-> <<"No transcripts available for this video">>])
            /\ tracks # <<>> =>
                 /\ Cardinality(later) = 1
                 /\ \A i \in later :
                      /\ call.trace[i].video = call.args[1]
                      /\ call.trace[i].languages = Some(<<code>>)

\* The first fetch found no transcript in "de", the list has a generated
\* track before two manual ones, and the fetch of "fr" returned segments.
C17_Witness ==
    /\ call.fn = "fetch_transcript_with_fallback" /\ call.ret # None
    /\ call.args[2] = Some(<<"de">>)
    /\ FirstFailure(call) = "NoTranscriptFound"
    /\ Len(call.args[3].tracks) = 3 /\ call.args[3].tracks[1].is_generated
    /\ \E i \in TraceOps(call, "fetch_transcript") :
          i > 1 /\ call.trace[i].languages = Some(<<"fr">>)

C19_ExtractsEveryShape ==
    (call.fn = "extract_video_id" /\ ~Pending(call)) =>
        /\ call.args[1] \in UrlsWithId => call.ret = Some("dQw4w9WgXcQ")
        /\ call.args[1] \in BareIds => call.ret = Some("dQw4w9WgXcQ")
        /\ call.args[1] \in UrlsWithoutId => (call.ret = None /\ call.raised # None)

\* C20 as stated: in what process_complete_video returns, every section of
\* detailed_summary, key_ideas and actionable_takeaways that carries a
\* timestamp_ms, a timestamp_ms of 0 included, has the youtube_link made of
\* video_url, "&" when video_url contains "?" and "?" otherwise, and
\* "t=<timestamp_ms div 1000>s"; a section without timestamp_ms has no link.
C20_LinkOnEveryTimestamp ==
    \A j \in DOMAIN jobs_store :
        (/\ jobs_store[j].status = "completed" /\ jobs_store[j].result # None
         /\ ~task[j].llm_raised) =>
            LET result == jobs_store[j].result[1]
                video_url == jobs_store[j].request.url
                sections == result.detailed_summary \o result.key_ideas
                                \o result.actionable_takeaways
            IN  \A i \in 1..Len(sections) :
                    /\ sections[i].timestamp_ms # None =>
                          sections[i].youtube_link =
                              Some([url |-> video_url,
                                    sep |-> IF \E k \in 1..Len(video_url) : video_url[k] = "?"
                                            THEN "&" ELSE "?",
                                    seconds |-> sections[i].timestamp_ms[1] \div 1000])
                    /\ sections[i].timestamp_ms = None => sections[i].youtube_link = None

\* C23 as stated: in every reachable state a job's status equals the status
\* inside its progress record.
C23_StatusEqualsProgressStatus ==
    \A j \in DOMAIN jobs_store : jobs_store[j].status = jobs_store[j].progress.status

C25_ProgressMonotone ==
    /\ [](\A j \in DOMAIN jobs_store :
             jobs_store[j].progress.progress_percent \in 0..100)
    /\ [][\A j \in DOMAIN jobs_store :
             jobs_store'[j].progress.progress_percent
                 >= jobs_store[j].progress.progress_percent]_vars

\* A job that was cancelled has been taken through 65 to 100 by its task.
C25_Witness ==
    \E j \in DOMAIN jobs_store :
        /\ j \in cancelled_jobs
        /\ jobs_store[j].progress.progress_percent = 100
        /\ \E i \in 1..Len(written[j]) : written[j][i] = <<MAPPING, 65>>

\* C27: a step that acts on one job id leaves the record of every other job
\* id as it was (an ingest leaves every record there was, a cancel every
\* record but the one it names, a pipeline step every record but its own
\* job's), a status request changes no record, and no step removes a record.
C27_RecordsIsolatedAndKept ==
    [][/\ DOMAIN jobs_store \subseteq DOMAIN jobs_store'
       /\ \A k \in DOMAIN jobs_store :
             /\ response'.op = "ingest" => jobs_store'[k] = jobs_store[k]
             /\ response'.op = "status" => jobs_store'[k] = jobs_store[k]
             /\ (response'.op = "cancel" /\ k # response'.job_id)
                   => jobs_store'[k] = jobs_store[k]
             /\ (response'.op = "none" /\ task'[k] = task[k])
                   => jobs_store'[k] = jobs_store[k]
       /\ \A j, k \in DOMAIN jobs_store :
             j # k => (jobs_store'[j] = jobs_store[j] \/ jobs_store'[k] = jobs_store[k])
      ]_vars

\* Two jobs side by side: one completed by its task, the other cancelled
\* before its task wrote anything.
C27_Witness ==
    \E j, k \in DOMAIN jobs_store :
        /\ j # k
        /\ jobs_store[j].status = COMPLETED /\ jobs_store[j].result # None
        /\ jobs_store[k].status = CANCELLED
        /\ jobs_store[k].progress.progress_percent = 0
        /\ response.op = "status"

\* C26: under a fair scheduler and upstream calls that return or fail, every
\* ingested job comes to status completed or failed and keeps it for ever,
\* with or without cancel requests on the way.
C26_EveryJobEnds ==
    \A j \in JobIds :
        [](j \in DOMAIN jobs_store =>
             <>[](j \in DOMAIN jobs_store /\ jobs_store[j].status \in {COMPLETED, FAILED}))

\* Both jobs were cancelled on their way and both have ended, one completed
\* and one failed.
C26_Witness ==
    /\ cancelled_jobs = JobIds
    /\ \E j, k \in DOMAIN jobs_store :
          /\ jobs_store[j].status = COMPLETED /\ task[j].pc = "done"
          /\ jobs_store[k].status = FAILED /\ task[k].pc = "failed"

\* C28: for every URL that VideoIngestRequest accepts, extract_video_id
\* succeeds and returns the id the accepting pattern captured.
C28_AcceptedUrlsExtract ==
    /\ (call.fn = "validate_youtube_url" /\ call.ret # None) =>
          /\ extract_video_id(call.args[1]).ok
          /\ Captured(call.args[1]) = {extract_video_id(call.args[1]).value}
    /\ (call.fn = "extract_video_id" /\ ~Pending(call)
        /\ validate_youtube_url(call.args[1]).ok) =>
          /\ call.ret # None
          /\ Captured(call.args[1]) = {call.ret[1]}

\* An accepted URL with v= followed by more than eleven id characters: both
\* take the first eleven.
C28_Witness ==
    /\ call.fn = "extract_video_id"
    /\ call.args[1] = <<"https://", "www.", "youtube.com", "/", "watch", "?", "v=",
                        "dQw4w9WgXcQ123">>
    /\ validate_youtube_url(call.args[1]).ok
    /\ call.ret = Some("dQw4w9WgXcQ")

\* The number of words the content and segment k of the transcript share.
Overlap(content, transcript, k) ==
    Cardinality(WordSet(Lower(content)) \cap WordSet(Lower(transcript[k].text)))

\* C29: _estimate_timestamp returns the start_ms of the segment with the
\* highest ratio of shared words to content words, the first of them in
\* transcript order when several have it, and no timestamp when no segment
\* shares a word with the content or the transcript is empty.  (All ratios
\* of one call have the denominator max(|content_words|, 1), so the highest
\* ratio is the highest overlap.)
C29_BestOverlapFirst ==
    (call.fn = "_estimate_timestamp" /\ ~Pending(call)) =>
        LET content == call.args[1]
            transcript == call.args[2]
            best == {k \in 1..Len(transcript) :
                        /\ Overlap(content, transcript, k) > 0
                        /\ \A i \in 1..Len(transcript) :
                              Overlap(content, transcript, i) <= Overlap(content, transcript, k)}
        IN  /\ best = {} => call.ret = Some(None)
            /\ best # {} =>
                  call.ret = Some(Some(transcript[CHOOSE k \in best :
                                                     \A i \in best : k <= i].start_ms))

\* Two segments share both words of the content and the first of them is
\* the second segment of the transcript: its start is returned.
C29_Witness ==
    /\ call.fn = "_estimate_timestamp" /\ call.ret = Some(Some(5000))
    /\ call.args[1] = <<"Supervised", " ", "learning">>
    /\ Len(call.args[2]) = 3
    /\ Overlap(call.args[1], call.args[2], 1) = 0
    /\ Overlap(call.args[1], call.args[2], 2) = 2
    /\ Overlap(call.args[1], call.args[2], 3) = 2

\* C30 as stated: for paragraph i of n, _estimate_timestamp_by_position
\* returns (i / max(n, 1)) * total_duration rounded to the nearest integer,
\* total_duration being the end_ms of the last segment, and no timestamp
\* for an empty transcript.
C30_RoundedPosition ==
    (call.fn = "_estimate_timestamp_by_position" /\ ~Pending(call)) =>
        LET position == call.args[1]
            n == Max(call.args[2], 1)
            transcript == call.args[3]
            total_duration == transcript[Len(transcript)].end_ms
        IN  /\ transcript = <<>> => call.ret = Some(None)
            /\ transcript # <<>> =>
                  /\ call.ret[1] # None
                  /\ LET d == call.ret[1][1] * n - position * total_duration
                     IN  2 * d <= n /\ -2 * d <= n

\* C21: every Mindmap that is constructed has at least one node, each
\* parent_id in it is the id of one of its nodes, and following parent_id
\* from any node reaches a root within as many steps as there are nodes (no
\* node is its own parent, no cycle); construction fails for every other
\* node list, and the failure names the missing parent id when there is one.
RECURSIVE ReachesRoot(_, _, _)
ReachesRoot(v, k, steps) ==
    IF v[k].parent_id = None
    THEN TRUE
    ELSE /\ steps > 0
         /\ \E m \in 1..Len(v) : /\ v[m].id = v[k].parent_id[1]
                                 /\ ReachesRoot(v, m, steps - 1)

IsTreeHierarchy(v) ==
    /\ Len(v) >= 1
    /\ \A k \in 1..Len(v) : ReachesRoot(v, k, Len(v))

C21_MindmapIsTree ==
    (call.fn = "Mindmap" /\ ~Pending(call)) =>
        LET v == call.args[1]
            ids == {v[k].id : k \in 1..Len(v)}
            missing == {v[k].parent_id[1] : k \in {m \in 1..Len(v) :
                           v[m].parent_id # None /\ v[m].parent_id[1] \notin ids}}
        IN  IF IsTreeHierarchy(v)
            THEN call.ret = Some(v)
            ELSE /\ call.raised # None
                 /\ missing # {} =>
                      \E p \in missing :
                          \E i \in 1..Len(call.raised[1].message) :
                              call.raised[1].message[i] = p

\* The positions of a request log that hold a request of the method fn.
RequestsOf(requests, fn) == {i \in 1..Len(requests) : requests[i].fn = fn}

\* C22: a generate method that has returned for k chunks has sent one
\* generate_summary request per chunk; generate_short_summary of one chunk
\* has sent that request alone; a method whose chunk count is not one has
\* sent exactly one reduce_summaries request, after all its chunk requests;
\* the three other methods of one chunk have gone through
\* process_transcript_chunks and reduce_summaries, which answers a single
\* summary without a request.  Once the four methods of
\* process_complete_video have returned, the requests sent are 4 for k = 1
\* and 4 * (k + 1) for k >= 2.
C22_UpstreamCallCounts ==
    /\ \A t \in SummaryTypes :
           LET rec == summary_tasks[t]
               k == Len(rec.chunks)
               maps == RequestsOf(rec.requests, "generate_summary")
               reduces == RequestsOf(rec.requests, "reduce_summaries")
           IN  (rec.entry = "generate" /\ rec.pc = "returned")
               => /\ \A i \in 1..k : Sent(rec.requests, MapRequest(rec.chunks[i], t)) = 1
                  /\ Cardinality(maps) = k
                  /\ k = 1 => /\ rec.requests = <<MapRequest(rec.chunks[1], t)>>
                              /\ rec.ret = Some(Completion(rec.requests[1]))
                  /\ k # 1 => /\ reduces = {k + 1}
                              /\ Len(rec.requests) = k + 1
                              /\ rec.requests[k + 1] =
                                     ReduceRequest(ChunkSummaries(k, t), t)
    /\ (\A t \in SummaryTypes : /\ summary_tasks[t].entry = "generate"
                                /\ summary_tasks[t].pc = "returned")
       => LET k == Len(summary_tasks["short"].chunks)
              total == Len(summary_tasks["short"].requests)
                       + Len(summary_tasks["detailed"].requests)
                       + Len(summary_tasks["key_ideas"].requests)
                       + Len(summary_tasks["takeaways"].requests)
          IN  /\ k = 1 => total = 4
              /\ k >= 2 => total = 4 * (k + 1)

\* C22 witness: the four methods of process_complete_video have returned
\* for a transcript of one chunk, the three that reduce among them.
C22_Witness ==
    /\ \A t \in SummaryTypes : /\ summary_tasks[t].entry = "generate"
                               /\ summary_tasks[t].pc = "returned"
                               /\ Len(summary_tasks[t].chunks) = 1
                               /\ Len(summary_tasks[t].requests) = 1

====
